---- MODULE Spec2Model ----
(***************************************************************************)
(* A model of scripts/3d2scad.py: the mesh clean-up and polygon            *)
(* reconstruction pipeline (remove_invalid_triangles, quantize_vertices,   *)
(* remove_zero_area_triangles, merge_coplanar_triangles, format_number,    *)
(* export_openscad_structure and the per-shell loop of main).              *)
(*                                                                         *)
(* Representation.  A coordinate is an integer number of units of          *)
(* 10^-unit_exp, and the grid size is grid_size such units; with           *)
(* unit_exp = 0 and grid_size = 1 the coordinates are plain integers.      *)
(* Vertex indices and triangle indices are 0-based as in the source; TLA+  *)
(* tuples are 1-based, so vertices[k] of the source is vertices[k + 1]     *)
(* here (Vertex(k)), and triangles[idx] is Tri(idx).  A Python dict is a   *)
(* tuple of its entries in insertion order (dicts keep insertion order;    *)
(* deleting an entry closes the gap, re-assigning an existing key keeps    *)
(* its place).  A text is a tuple of one-character strings.                *)
(***************************************************************************)
EXTENDS Integers, Sequences, FiniteSets, TLC

VARIABLES
    vertices,           \* the vertex array (tuple of points <<x, y, z>>)
    triangles,          \* the triangle array (tuple of index triples)
    normal_tolerance,   \* <<p, q>>: the tolerance p / q, 0 <= p < q
    pc,                 \* position in the function being run
    face_normals,       \* merge: tuple of face normals, by triangle
    edge_to_triangles,  \* merge: sorted index pair -> tuple of triangle indices
    used,               \* merge: set of triangle indices already in a group
    triangle_groups,    \* merge: tuple of groups (tuples of triangle indices)
    i,                  \* merge: the flood fill's outer loop index
    group,              \* merge: the group being grown / processed
    queue,              \* merge: the flood fill's work list
    gi,                 \* merge: number of groups already turned into polygons
    edge_count,         \* merge: dict of surviving directed edges (insertion order)
    edges,              \* merge: dict start vertex -> end vertex (insertion order)
    loop,               \* merge: the boundary loop being walked
    current,            \* merge: the walk's current vertex
    final_polys,        \* merge: the polygons emitted so far
    poly_group,         \* ghost: for each emitted polygon, the group it came from
    removed,            \* number of triangles removed by the last filter
    unit_exp,           \* coordinates and grid are multiples of 10^-unit_exp
    grid_size,          \* args.quantize, in units of 10^-unit_exp
    min_faces,          \* args.min_faces
    stages,             \* ghost: the functions main has completed, in order
    number,             \* format_number: n, as <<m, d>> for m / 10^d
    precision,          \* format_number, export: the number of decimals
    text,               \* format_number: s, a tuple of characters
    written,            \* export: the text written to f, a tuple of characters
    loaded              \* ghost: the vertex array before any stage ran

vars == <<vertices, triangles, normal_tolerance, pc, face_normals,
          edge_to_triangles, used, triangle_groups, i, group, queue, gi,
          edge_count, edges, loop, current, final_polys, poly_group, removed,
          unit_exp, grid_size, min_faces, stages, number, precision, text,
          written, loaded>>

mergeVars == <<face_normals, edge_to_triangles, used, triangle_groups, i, group,
               queue, gi, edge_count, edges, loop, current, final_polys,
               poly_group>>

\* The command line arguments and the variables of format_number and export.
args == <<unit_exp, grid_size, min_faces>>

fmtVars == <<number, precision, text>>

-----------------------------------------------------------------------------
(* Bounds of the model. *)

\* Largest number of triangles of an exhaustively enumerated input mesh.
MaxTris == 2

-----------------------------------------------------------------------------
(* Tuples. *)

Range(s) == {s[k] : k \in 1..Len(s)}

InSeq(x, s) == \E k \in 1..Len(s) : s[k] = x

Front(s) == SubSeq(s, 1, Len(s) - 1)

Reverse(s) == [k \in 1..Len(s) |-> s[Len(s) + 1 - k]]

\* s without its first occurrence of x (Python: del d[x] on an ordered dict).
RemoveFirst(s, x) ==
    LET k == CHOOSE n \in 1..Len(s) : s[n] = x /\ \A m \in 1..(n - 1) : s[m] # x
    IN  SubSeq(s, 1, k - 1) \o SubSeq(s, k + 1, Len(s))

\* All tuples over S of length 1..n.
RECURSIVE SeqsUpTo(_, _)
SeqsUpTo(S, n) ==
    IF n = 0 THEN {}
    ELSE LET shorter == SeqsUpTo(S, n - 1)
         IN  {<<x>> : x \in S} \cup shorter
               \cup {Append(s, x) : s \in {t \in shorter : Len(t) = n - 1}, x \in S}

-----------------------------------------------------------------------------
(* Integer geometry. *)

Abs(x) == IF x < 0 THEN -x ELSE x

RECURSIVE Gcd(_, _)
Gcd(a, b) == IF b = 0 THEN Abs(a) ELSE Gcd(b, a % Abs(b))

Sub(u, v) == <<u[1] - v[1], u[2] - v[2], u[3] - v[3]>>

Cross(u, v) == <<u[2] * v[3] - u[3] * v[2],
                 u[3] * v[1] - u[1] * v[3],
                 u[1] * v[2] - u[2] * v[1]>>

Dot(u, v) == u[1] * v[1] + u[2] * v[2] + u[3] * v[3]

\* a / b < c / d for a, c >= 0 and b, d > 0, by continued fractions, so that no
\* product is formed (TLC's integers are 32 bits wide).
RECURSIVE FracLess(_, _, _, _)
FracLess(a, b, c, d) ==
    IF a \div b # c \div d THEN a \div b < c \div d
    ELSE IF c % d = 0 THEN FALSE
    ELSE IF a % b = 0 THEN TRUE
    ELSE FracLess(d, c % d, b, a % b)

\* face_normal(v0, v1, v2): np.cross(v1 - v0, v2 - v0).
face_normal(v0, v1, v2) == Cross(Sub(v1, v0), Sub(v2, v0))

\* normal /= np.linalg.norm(normal) + 1e-12.  The normalized vector is
\* represented by its direction: the shortest integer vector of the same
\* direction (the zero vector stays zero: 0 / 1e-12 = 0).  Its length, just
\* under 1 because of the 1e-12, is accounted for in Coplanar.
Normalized(n) ==
    LET d == Gcd(Gcd(n[1], n[2]), n[3])
    IN  IF d = 0 THEN n ELSE <<n[1] \div d, n[2] \div d, n[3] \div d>>


\* np.dot(face_normals[curr], face_normals[nbr]) >= 1.0 - normal_tolerance, for
\* the normalized normals n1, n2 and the tolerance p / q.  The stored vectors
\* have length 1 / (1 + 1e-12 / norm) < 1, so their dot product is strictly less
\* than the cosine c of the angle between the faces (and it is 0 when a normal is
\* the zero vector).  For integer coordinates the gap between c and 1 - p / q is
\* either 0 or far larger than that deficit (for |n1|^2 |n2|^2 q^2 < 10^11, which
\* the inputs below satisfy), so the comparison comes out as  c > 1 - p / q,  i.e.
\* D > 0 and 1 - c^2 < 1 - (1 - p / q)^2  with  c^2 = D^2 / (A B).
Coplanar(n1, n2, tol) ==
    LET D == Dot(n1, n2)
        A == Dot(n1, n1)
        B == Dot(n2, n2)
        p == tol[1]
        q == tol[2]
    IN  /\ D > 0
        /\ FracLess(A * B - D * D, A * B, p * (2 * q - p), q * q)

-----------------------------------------------------------------------------
(* merge_coplanar_triangles: adjacency index and face normals. *)

\* vertices[k] is defined for -len <= k < len; anything else is an IndexError.
Indexable(k) == -Len(vertices) <= k /\ k < Len(vertices)

\* vertices[k]: a negative k counts from the end of the array.
Vertex(k) == vertices[(IF k < 0 THEN k + Len(vertices) ELSE k) + 1]

Tri(idx) == triangles[idx + 1]

NumTris == Len(triangles)

\* The directed edge (tri[k], tri[(k + 1) % 3]) of a triangle, k in 0..2.
DirEdge(tri, k) == <<tri[k + 1], tri[((k + 1) % 3) + 1]>>

\* key = tuple(sorted((a, b)))
EdgeKey(a, b) == IF a <= b THEN <<a, b>> ELSE <<b, a>>

\* TriKey without the sorted(): the key is the directed edge.
TriKeyUnsorted(tri, k) == DirEdge(tri, k)

TriKey(tri, k) == EdgeKey(DirEdge(tri, k)[1], DirEdge(tri, k)[2])

\* The face normal appended for triangle tri.
NormalOf(tri) ==
    Normalized(face_normal(Vertex(tri[1]), Vertex(tri[2]), Vertex(tri[3])))

\* edge_to_triangles[key].append(idx) for the three edges of triangle idx, in
\* order.  The defaultdict is a function on all index pairs; an absent key is
\* the empty list.
AddTriangleEdges(e2t, idx) ==
    LET e0 == [e2t EXCEPT ![TriKey(Tri(idx), 0)] = Append(@, idx)]
        e1 == [e0 EXCEPT ![TriKey(Tri(idx), 1)] = Append(@, idx)]
    IN  [e1 EXCEPT ![TriKey(Tri(idx), 2)] = Append(@, idx)]

VertexIndices == 0..(Len(vertices) - 1)

\* The indices the triangles hold.
CornerIndices == UNION {Range(triangles[n]) : n \in 1..NumTris}

\* No triangle holds an index that raises an IndexError.
IndicesAccepted == \A k \in CornerIndices : Indexable(k)

EdgeKeys ==
    (VertexIndices \cup CornerIndices) \X (VertexIndices \cup CornerIndices)

\* The index after the first n triangles have been entered.
RECURSIVE BuildIndex(_)
BuildIndex(n) ==
    IF n = 0 THEN [k \in EdgeKeys |-> <<>>]
    ELSE AddTriangleEdges(BuildIndex(n - 1), n - 1)

-----------------------------------------------------------------------------
(* merge_coplanar_triangles: flood fill. *)

\* Visit with "group.append(nbr)" left out.
VisitWithoutAppend(st, curr, nbr) ==
    IF nbr \in st.used THEN st
    ELSE IF Coplanar(face_normals[curr + 1], face_normals[nbr + 1], normal_tolerance)
         THEN [used |-> st.used \cup {nbr},
               queue |-> Append(st.queue, nbr),
               group |-> st.group]
         ELSE st

\* Visit with the neighbour compared against the group's first triangle
\* instead of the triangle just popped.
VisitAgainstSeed(st, curr, nbr) ==
    IF nbr \in st.used THEN st
    ELSE IF Coplanar(face_normals[st.group[1] + 1], face_normals[nbr + 1],
                     normal_tolerance)
         THEN [used |-> st.used \cup {nbr},
               queue |-> Append(st.queue, nbr),
               group |-> Append(st.group, nbr)]
         ELSE st

\* The body of "for nbr in neighbors" for one nbr; st = [used, queue, group].
Visit(st, curr, nbr) ==
    IF nbr \in st.used THEN st
    ELSE IF Coplanar(face_normals[curr + 1], face_normals[nbr + 1], normal_tolerance)
         THEN [used |-> st.used \cup {nbr},
               queue |-> Append(st.queue, nbr),
               group |-> Append(st.group, nbr)]
         ELSE st

RECURSIVE VisitAll(_, _, _)
VisitAll(st, curr, nbrs) ==
    IF nbrs = <<>> THEN st
    ELSE VisitAll(Visit(st, curr, Head(nbrs)), curr, Tail(nbrs))

\* The neighbours looked at for curr: those of its edge 0, then 1, then 2.
Neighbors(curr) ==
    edge_to_triangles[TriKey(Tri(curr), 0)]
        \o edge_to_triangles[TriKey(Tri(curr), 1)]
        \o edge_to_triangles[TriKey(Tri(curr), 2)]

-----------------------------------------------------------------------------
(* merge_coplanar_triangles: boundary extraction and loop walk. *)

\* CountEdge without the cancellation against the opposite edge.
CountEdgeWithoutCancel(ec, a, b) ==
    IF InSeq(<<a, b>>, ec) THEN ec ELSE Append(ec, <<a, b>>)

\* One directed edge (a, b) entered into edge_count.
CountEdge(ec, a, b) ==
    IF InSeq(<<b, a>>, ec) THEN RemoveFirst(ec, <<b, a>>)
    ELSE IF InSeq(<<a, b>>, ec) THEN ec
    ELSE Append(ec, <<a, b>>)

CountTriangle(ec, tri) ==
    LET c0 == CountEdge(ec, DirEdge(tri, 0)[1], DirEdge(tri, 0)[2])
        c1 == CountEdge(c0, DirEdge(tri, 1)[1], DirEdge(tri, 1)[2])
    IN  CountEdge(c1, DirEdge(tri, 2)[1], DirEdge(tri, 2)[2])

\* CountGroup with "edge_count = {}" left out: the count goes on from what the
\* previous group left in edge_count.
RECURSIVE CountGroupOnLeftover(_, _)
CountGroupOnLeftover(grp, n) ==
    IF n = 0 THEN edge_count
    ELSE CountTriangle(CountGroupOnLeftover(grp, n - 1), Tri(grp[n]))

\* edge_count ec after the triangles grp[lo], ..., grp[hi] have been entered,
\* one after the other.  The span is halved, and the first half is worked out
\* (its length taken) before the second is begun, so that the evaluation does
\* not nest as deep as the group is long.
RECURSIVE CountSpan(_, _, _, _)
CountSpan(ec, grp, lo, hi) ==
    IF lo > hi THEN ec
    ELSE IF lo = hi THEN CountTriangle(ec, Tri(grp[lo]))
    ELSE LET half == CountSpan(ec, grp, lo, (lo + hi) \div 2)
         IN  IF Len(half) >= 0
             THEN CountSpan(half, grp, ((lo + hi) \div 2) + 1, hi)
             ELSE half

\* edge_count after the first n triangles of group grp.
CountGroup(grp, n) == CountSpan(<<>>, grp, 1, n)

Keys(d) == {d[k][1] : k \in 1..Len(d)}

Lookup(d, a) == (CHOOSE e \in Range(d) : e[1] = a)[2]

\* d[a] = b on an ordered dict.
SetItem(d, a, b) ==
    IF a \in Keys(d)
    THEN [k \in 1..Len(d) |-> IF d[k][1] = a THEN <<a, b>> ELSE d[k]]
    ELSE Append(d, <<a, b>>)

\* del d[a] that leaves the entry in.
DelItemKept(d, a) == d

\* del d[a]
DelItem(d, a) == SelectSeq(d, LAMBDA e : e[1] # a)

\* The dict d after d[a] = b for the entries (a, b) = ec[lo], ..., ec[hi], one
\* after the other (halved like CountSpan).
RECURSIVE SuccessorSpan(_, _, _, _)
SuccessorSpan(d, ec, lo, hi) ==
    IF lo > hi THEN d
    ELSE IF lo = hi THEN SetItem(d, ec[lo][1], ec[lo][2])
    ELSE LET half == SuccessorSpan(d, ec, lo, (lo + hi) \div 2)
         IN  IF Len(half) >= 0
             THEN SuccessorSpan(half, ec, ((lo + hi) \div 2) + 1, hi)
             ELSE half

\* edges = {a: b for a, b in edge_count.values()}, over the first n entries.
SuccessorMap(ec, n) == SuccessorSpan(<<>>, ec, 1, n)

\* The safety bound on the length of a walked loop.
MaxLoop == 1000

\* Emitted without the reversal.
EmittedUnreversed(lp) == Front(lp)

\* Emitted with the closing vertex left in.
EmittedWithClosing(lp) == Reverse(lp)

\* final_polys.append(loop[:-1][::-1])
Emitted(lp) == Reverse(Front(lp))

-----------------------------------------------------------------------------
(* Inputs of merge_coplanar_triangles. *)

\* normal_tolerance=1e-4, the default of merge_coplanar_triangles.
DefaultTolerance == <<1, 10000>>

\* A coarse tolerance (0.2: faces up to about 36.8 degrees apart merge), passed
\* explicitly, that brings faces near and at the tolerance within small grids.
CoarseTolerance == <<1, 5>>

\* Four coplanar corners of a unit square.
Square == <<<<0, 0, 0>>, <<1, 0, 0>>, <<1, 1, 0>>, <<0, 1, 0>>>>

\* Four points in general position: faces 012 and 013 are about 26.6 degrees
\* apart, the other pairs of faces much more.
Wedge == <<<<0, 0, 0>>, <<1, 0, 0>>, <<0, 2, 0>>, <<0, 2, 1>>>>

\* Index triples with three different indices into an array of n vertices.
IndexTriples(n) ==
    {t \in (0..(n - 1)) \X (0..(n - 1)) \X (0..(n - 1)) :
        t[1] # t[2] /\ t[2] # t[3] /\ t[1] # t[3]}

\* Every mesh of up to MaxTris triangles over these vertex arrays.
SmallMeshes ==
    {[v |-> g[1], tol |-> g[2], t |-> ts] :
        g \in {<<Square, DefaultTolerance>>, <<Wedge, DefaultTolerance>>,
               <<Wedge, CoarseTolerance>>},
        ts \in SeqsUpTo(IndexTriples(4), MaxTris)}

\* A flat 2 x 1 rectangle cut along the diagonal p0-p2.
Rectangle ==
    [v |-> <<<<0, 0, 0>>, <<2, 0, 0>>, <<2, 1, 0>>, <<0, 1, 0>>>>,
     t |-> <<<<0, 1, 2>>, <<0, 2, 3>>>>,
     tol |-> DefaultTolerance]

\* A flat triangle 0-1-2 with the triangular hole 3-4-5: six triangles around
\* the hole, all wound counter-clockwise.
Annulus ==
    [v |-> <<<<0, 0, 0>>, <<9, 0, 0>>, <<0, 9, 0>>,
             <<2, 2, 0>>, <<4, 2, 0>>, <<2, 4, 0>>>>,
     t |-> <<<<0, 1, 3>>, <<1, 4, 3>>, <<1, 2, 4>>,
             <<2, 5, 4>>, <<2, 0, 5>>, <<0, 3, 5>>>>,
     tol |-> DefaultTolerance]

\* A flat triangle 0-1-2 with the triangular hole 0-3-4 that touches the outer
\* boundary at vertex 0: the boundary is a figure-eight pinched at vertex 0.
FigureEight ==
    [v |-> <<<<0, 0, 0>>, <<8, 0, 0>>, <<0, 8, 0>>, <<2, 1, 0>>, <<1, 2, 0>>>>,
     t |-> <<<<0, 1, 3>>, <<1, 2, 3>>, <<2, 4, 3>>, <<2, 0, 4>>>>,
     tol |-> DefaultTolerance]

\* Three triangles on the common edge 0-1 (a non-manifold edge), wound alike,
\* their faces fanned out by about 26.6 and 18.4 degrees: 45 degrees in all.
Fan ==
    [v |-> <<<<0, 0, 0>>, <<1, 0, 0>>, <<0, 1, 0>>, <<0, 2, 1>>, <<0, 1, 1>>>>,
     t |-> <<<<0, 1, 2>>, <<0, 1, 3>>, <<0, 1, 4>>>>,
     tol |-> CoarseTolerance]

\* A roof of three consistently wound triangles around the apex 0.  The faces
\* 0 and 1 are about 35.3 degrees apart, 1 and 2 are 30 degrees apart, 2 and 0
\* are 45 degrees apart.
Roof ==
    [v |-> <<<<0, 0, 0>>, <<-1, 0, 0>>, <<1, -1, 0>>, <<1, 1, 1>>>>,
     t |-> <<<<0, 1, 2>>, <<0, 2, 3>>, <<0, 3, 1>>>>,
     tol |-> CoarseTolerance]

\* Two triangles on the edge 0-1 whose unit normals (0,0,1) and (0,3,4)/5 have
\* the dot product 4/5, exactly 1 - 0.2.
AtTolerance ==
    [v |-> <<<<0, 0, 0>>, <<1, 0, 0>>, <<0, 1, 0>>, <<0, -4, 3>>>>,
     t |-> <<<<0, 1, 2>>, <<1, 0, 3>>>>,
     tol |-> CoarseTolerance]

\* The rectangle's two triangles, the second one using its own copies 4 and 5
\* of the vertices 0 and 2 (same positions, other indices).
SplitRectangle ==
    [v |-> <<<<0, 0, 0>>, <<2, 0, 0>>, <<2, 1, 0>>, <<0, 1, 0>>,
             <<0, 0, 0>>, <<2, 1, 0>>>>,
     t |-> <<<<0, 1, 2>>, <<4, 5, 3>>>>,
     tol |-> DefaultTolerance]

\* Triangles with a repeated index (no area) next to a proper triangle.
Collapsed ==
    [v |-> Square,
     t |-> <<<<0, 0, 1>>, <<0, 1, 2>>, <<1, 1, 1>>>>,
     tol |-> DefaultTolerance]

\* The figure-eight region and, apart from it, a single triangle.
PinchedAndApart ==
    [v |-> FigureEight.v \o <<<<0, 0, 5>>, <<1, 0, 5>>, <<0, 1, 5>>>>,
     t |-> FigureEight.t \o <<<<5, 6, 7>>>>,
     tol |-> DefaultTolerance]

\* The unit square with its second triangle naming vertex 3 as -1, counted
\* from the end of the array.
FromTheEnd ==
    [v |-> Square,
     t |-> <<<<0, 1, 2>>, <<0, 2, -1>>>>,
     tol |-> DefaultTolerance]

\* The unit square with a triangle naming the vertex 4, which the array of
\* four vertices does not have.
OutOfRange ==
    [v |-> Square,
     t |-> <<<<0, 1, 2>>, <<0, 2, 4>>>>,
     tol |-> DefaultTolerance]

\* The rectangle's two triangles and a third flat triangle on the diagonal 0-2,
\* wound like the second one and lying over it: the edge 0-2 is used by three
\* triangles of one region, twice in the direction (0, 2).
Overlapped ==
    [v |-> Rectangle.v \o <<<<1, 2, 0>>>>,
     t |-> Rectangle.t \o <<<<0, 2, 4>>>>,
     tol |-> DefaultTolerance]

\* The unit cube, vertex k at (k % 2, (k \div 2) % 2, k \div 4).
CubeVertices ==
    <<<<0, 0, 0>>, <<1, 0, 0>>, <<0, 1, 0>>, <<1, 1, 0>>,
      <<0, 0, 1>>, <<1, 0, 1>>, <<0, 1, 1>>, <<1, 1, 1>>>>

\* Its six sides as quadrilaterals, counter-clockwise seen from outside.
CubeSides ==
    <<<<4, 6, 2, 0>>, <<1, 3, 7, 5>>, <<0, 1, 5, 4>>,
      <<6, 7, 3, 2>>, <<2, 3, 1, 0>>, <<4, 5, 7, 6>>>>

\* The two triangles of side s: cut along the diagonal 0-2 of the quadrilateral,
\* or along 1-3 if the side is in flips.
RECURSIVE CubeTriangles(_, _)
CubeTriangles(n, flips) ==
    IF n = 0 THEN <<>>
    ELSE LET s == CubeSides[n]
         IN  CubeTriangles(n - 1, flips)
               \o (IF n \in flips
                   THEN <<<<s[2], s[3], s[4]>>, <<s[2], s[4], s[1]>>>>
                   ELSE <<<<s[1], s[2], s[3]>>, <<s[1], s[3], s[4]>>>>)

Cubes ==
    {[v |-> CubeVertices, t |-> CubeTriangles(6, f), tol |-> DefaultTolerance] :
        f \in SUBSET (1..6)}

\* The triangle list ts with every triangle rotated by r places and the list
\* rotated by k places.
Rearranged(ts, r, k) ==
    [n \in 1..Len(ts) |->
        LET t == ts[((n - 1 + k) % Len(ts)) + 1]
        IN  <<t[(r % 3) + 1], t[((r + 1) % 3) + 1], t[((r + 2) % 3) + 1]>>]

Scenarios ==
    {[v |-> m.v, t |-> Rearranged(m.t, r, k), tol |-> m.tol] :
        m \in {Rectangle, Annulus, FigureEight, Fan, Roof, AtTolerance,
               SplitRectangle, Collapsed, PinchedAndApart, FromTheEnd,
               OutOfRange, Overlapped},
        r \in 0..2, k \in 0..5}
    \cup {[v |-> m.v, t |-> Rearranged(m.t, r, 0), tol |-> m.tol] :
            m \in Cubes, r \in 0..2}

MergeInputs == SmallMeshes \cup Scenarios

-----------------------------------------------------------------------------
(* merge_coplanar_triangles as a state machine. *)

Init ==
    /\ \E m \in MergeInputs :
         /\ vertices = m.v
         /\ triangles = m.t
         /\ normal_tolerance = m.tol
    /\ pc = "index"
    /\ face_normals = <<>>
    /\ edge_to_triangles = <<>>
    /\ used = {}
    /\ triangle_groups = <<>>
    /\ i = 0
    /\ group = <<>>
    /\ queue = <<>>
    /\ gi = 0
    /\ edge_count = <<>>
    /\ edges = <<>>
    /\ loop = <<>>
    /\ current = 0
    /\ final_polys = <<>>
    /\ poly_group = <<>>
    /\ removed = 0
    /\ unit_exp = 0
    /\ grid_size = 1
    /\ min_faces = 0
    /\ stages = <<>>
    /\ number = <<0, 0>>
    /\ precision = 0
    /\ text = <<>>
    /\ written = <<>>
    /\ loaded = vertices

input == <<vertices, triangles, normal_tolerance, removed, args, stages,
           fmtVars, written, loaded>>

\* Lines 117-132: face normals and the edge -> triangles index.
IndexTriangles ==
    /\ pc = "index"
    /\ IF IndicesAccepted
       THEN /\ face_normals' = [n \in 1..NumTris |-> NormalOf(triangles[n])]
            /\ edge_to_triangles' = BuildIndex(NumTris)
            /\ pc' = "flood"
       ELSE /\ pc' = "error"
            /\ UNCHANGED <<face_normals, edge_to_triangles>>
    /\ used' = {}
    /\ triangle_groups' = <<>>
    /\ i' = 0
    /\ UNCHANGED <<input, group, queue, gi, edge_count, edges, loop, current,
                   final_polys, poly_group>>

\* Lines 134-139: one iteration of "for i in range(len(triangles))" up to the
\* inner while loop.
FloodSeed ==
    /\ pc = "flood"
    /\ i < NumTris
    /\ IF i \in used
       THEN /\ i' = i + 1
            /\ UNCHANGED <<pc, group, queue, used>>
       ELSE /\ group' = <<i>>
            /\ queue' = <<i>>
            /\ used' = used \cup {i}
            /\ pc' = "fill"
            /\ UNCHANGED i
    /\ UNCHANGED <<input, face_normals, edge_to_triangles, triangle_groups, gi,
                   edge_count, edges, loop, current, final_polys, poly_group>>

\* Lines 141-155: one iteration of "while queue": curr = queue.pop() and the
\* visit of all its neighbours.
FloodPop ==
    /\ pc = "fill"
    /\ queue # <<>>
    /\ LET curr == queue[Len(queue)]
           st == VisitAll([used |-> used, queue |-> Front(queue), group |-> group],
                          curr, Neighbors(curr))
       IN  /\ used' = st.used
           /\ queue' = st.queue
           /\ group' = st.group
    /\ UNCHANGED <<input, pc, face_normals, edge_to_triangles, triangle_groups, i,
                   gi, edge_count, edges, loop, current, final_polys, poly_group>>

\* Line 157: the queue is empty, the group is complete.
GroupDone ==
    /\ pc = "fill"
    /\ queue = <<>>
    /\ triangle_groups' = Append(triangle_groups, group)
    /\ i' = i + 1
    /\ pc' = "flood"
    /\ UNCHANGED <<input, face_normals, edge_to_triangles, used, group, queue, gi,
                   edge_count, edges, loop, current, final_polys, poly_group>>

\* Lines 159-163: the flood fill is over.
FloodEnd ==
    /\ pc = "flood"
    /\ i = NumTris
    /\ final_polys' = <<>>
    /\ poly_group' = <<>>
    /\ gi' = 0
    /\ pc' = "polys"
    /\ UNCHANGED <<input, face_normals, edge_to_triangles, used, triangle_groups,
                   i, group, queue, edge_count, edges, loop, current>>

\* Lines 164-185: boundary extraction of the next group and the start of its walk.
ExtractBoundary ==
    /\ pc = "polys"
    /\ gi < Len(triangle_groups)
    /\ LET grp == triangle_groups[gi + 1]
           ec == CountGroup(grp, Len(grp))
           es == SuccessorMap(ec, Len(ec))
       IN  /\ group' = grp
           /\ edge_count' = ec
           /\ IF Len(ec) < 3 \/ es = <<>>
              THEN /\ gi' = gi + 1
                   /\ UNCHANGED <<pc, edges, loop, current>>
              ELSE /\ edges' = es
                   /\ loop' = <<es[1][1]>>
                   /\ current' = es[1][1]
                   /\ pc' = "walk"
                   /\ UNCHANGED gi
    /\ UNCHANGED <<input, face_normals, edge_to_triangles, used, triangle_groups,
                   i, queue, final_polys, poly_group>>

\* Lines 187-200: one evaluation of "while current in edges" and of its body.
WalkStep ==
    /\ pc = "walk"
    /\ IF current \notin Keys(edges)
       THEN /\ pc' = "walked"
            /\ UNCHANGED <<edges, loop, current>>
       ELSE LET next_vertex == Lookup(edges, current)
            IN  IF next_vertex = loop[1]
                THEN /\ loop' = Append(loop, next_vertex)
                     /\ pc' = "walked"
                     /\ UNCHANGED <<edges, current>>
                ELSE IF InSeq(next_vertex, loop)
                THEN /\ loop' = <<>>
                     /\ pc' = "walked"
                     /\ UNCHANGED <<edges, current>>
                ELSE /\ edges' = DelItem(edges, current)
                     /\ current' = next_vertex
                     /\ IF Len(loop) + 1 > MaxLoop
                        THEN loop' = <<>> /\ pc' = "walked"
                        ELSE loop' = Append(loop, next_vertex) /\ pc' = "walk"
    /\ UNCHANGED <<input, face_normals, edge_to_triangles, used, triangle_groups,
                   i, group, queue, gi, edge_count, final_polys, poly_group>>

\* Lines 202-203: the loop is emitted if it closed.
EmitLoop ==
    /\ pc = "walked"
    /\ IF Len(loop) >= 4 /\ loop[1] = loop[Len(loop)]
       THEN /\ final_polys' = Append(final_polys, Emitted(loop))
            /\ poly_group' = Append(poly_group, gi)
       ELSE UNCHANGED <<final_polys, poly_group>>
    /\ gi' = gi + 1
    /\ pc' = "polys"
    /\ UNCHANGED <<input, face_normals, edge_to_triangles, used, triangle_groups,
                   i, group, queue, edge_count, edges, loop, current>>

\* Lines 205-206: return final_polys.
Return ==
    /\ pc = "polys"
    /\ gi = Len(triangle_groups)
    /\ pc' = "done"
    /\ stages' = Append(stages, "merge_coplanar_triangles")
    /\ UNCHANGED <<vertices, triangles, normal_tolerance, removed, args,
                   fmtVars, written, loaded, mergeVars>>

Next ==
    \/ IndexTriangles
    \/ FloodSeed
    \/ FloodPop
    \/ GroupDone
    \/ FloodEnd
    \/ ExtractBoundary
    \/ WalkStep
    \/ EmitLoop
    \/ Return

Spec == Init /\ [][Next]_vars

-----------------------------------------------------------------------------
(* Vocabulary of the claims about merge_coplanar_triangles. *)

\* The flood fill is over: triangle_groups is final.
Grouped == pc \in {"polys", "walk", "walked", "done"}

\* Number of places of the groups at which triangle idx stands.
Places(idx) ==
    Cardinality({w \in (1..Len(triangle_groups)) \X (1..NumTris) :
                    /\ w[2] <= Len(triangle_groups[w[1]])
                    /\ triangle_groups[w[1]][w[2]] = idx})

\* Some edge is used by three or more triangles.
NonManifold == \E k \in DOMAIN edge_to_triangles : Len(edge_to_triangles[k]) >= 3

SameRegion(a, b) ==
    \E n \in 1..Len(triangle_groups) :
        InSeq(a, triangle_groups[n]) /\ InSeq(b, triangle_groups[n])

\* The undirected edges of a triangle.
KeysOfTri(tri) == {TriKey(tri, 0), TriKey(tri, 1), TriKey(tri, 2)}

\* The directed edges of a triangle.
DirEdgesOfTri(tri) == {DirEdge(tri, 0), DirEdge(tri, 1), DirEdge(tri, 2)}

\* The triangles (places of grp) of a region that have the undirected edge key.
Users(grp, key) == {n \in 1..Len(grp) : key \in KeysOfTri(Tri(grp[n]))}

\* The boundary of a region: its triangle edges not shared with another
\* triangle of the region.
Boundary(grp) ==
    {key \in UNION {KeysOfTri(Tri(grp[n])) : n \in 1..Len(grp)} :
        Cardinality(Users(grp, key)) = 1}

EndPoints(B) == UNION {{e[1], e[2]} : e \in B}

Degree(B, v) == Cardinality({e \in B : v \in {e[1], e[2]}})

\* The vertices joined to a vertex of S by edges of B.
RECURSIVE Joined(_, _)
Joined(S, B) ==
    LET T == S \cup UNION {{e[1], e[2]} : e \in {f \in B : f[1] \in S \/ f[2] \in S}}
    IN  IF T = S THEN S ELSE Joined(T, B)

OneComponent(B) ==
    \A e \in B : Joined({e[1]}, B) = EndPoints(B)

\* B is one simple closed loop.
SimpleCycle(B) ==
    /\ B # {}
    /\ \A v \in EndPoints(B) : Degree(B, v) = 2
    /\ OneComponent(B)

\* The emitted polygons (places of final_polys) of group number n (1-based).
PolysOf(n) == {k \in 1..Len(final_polys) : poly_group[k] = n - 1}

\* The undirected edges between cyclically consecutive vertices of a polygon.
CycleEdges(poly) ==
    {EdgeKey(poly[k], poly[(k % Len(poly)) + 1]) : k \in 1..Len(poly)}

\* The polygon goes once around the loop B.
TracesLoop(poly, B) ==
    /\ Len(poly) = Cardinality(B)
    /\ Cardinality(Range(poly)) = Len(poly)
    /\ CycleEdges(poly) = B

\* No directed edge is used by two triangles of the region: across every
\* shared edge the two triangles are wound consistently.
ConsistentlyWound(grp) ==
    \A m, n \in 1..Len(grp) :
        m # n => DirEdgesOfTri(Tri(grp[m])) \cap DirEdgesOfTri(Tri(grp[n])) = {}

-----------------------------------------------------------------------------
(* Claims. *)

\* C1: once the flood fill is over, every triangle index stands at exactly one
\* place of triangle_groups: none is missing, none is in two groups or twice in
\* a group, also when an edge is shared by more than two triangles.
C1_Partition ==
    Grouped => \A idx \in 0..(NumTris - 1) : Places(idx) = 1

\* A finished run on a mesh with an edge shared by three triangles, of which at
\* least two were merged.
C1_Witness ==
    /\ pc = "done"
    /\ NonManifold
    /\ \E n \in 1..Len(triangle_groups) : Len(triangle_groups[n]) >= 2

HoleBoundary(B) ==
    /\ B # {}
    /\ \A v \in EndPoints(B) : Degree(B, v) = 2
    /\ ~OneComponent(B)

\* C3 as stated: a region with an internal hole is dropped, no polygon is
\* emitted for it.
C3_HoleRegionDropped ==
    pc = "done" =>
        \A n \in 1..Len(triangle_groups) :
            HoleBoundary(Boundary(triangle_groups[n])) => PolysOf(n) = {}

\* The directed boundary edges of a region that leave vertex v.
BoundaryOut(grp, v) ==
    {e \in UNION {DirEdgesOfTri(Tri(grp[n])) : n \in 1..Len(grp)} :
        e[1] = v /\ EdgeKey(e[1], e[2]) \in Boundary(grp)}

\* The boundary of the region is a figure-eight: one piece, every vertex on two
\* boundary edges except one pinch vertex on four, two of them outgoing.
FigureEightBoundary(grp) ==
    LET B == Boundary(grp)
    IN  /\ B # {}
        /\ OneComponent(B)
        /\ \E v \in EndPoints(B) :
             /\ Degree(B, v) = 4
             /\ Cardinality(BoundaryOut(grp, v)) = 2
             /\ \A w \in EndPoints(B) \ {v} : Degree(B, w) = 2

\* C4 as stated: a region whose boundary is a figure-eight yields no polygon,
\* whichever boundary edge the walk starts from.
C4_FigureEightDropped ==
    pc = "done" =>
        \A n \in 1..Len(triangle_groups) :
            FigureEightBoundary(triangle_groups[n]) => PolysOf(n) = {}

\* The rotations of a tuple.
Rotations(s) ==
    {[k \in 1..Len(s) |-> s[((k - 1 + r) % Len(s)) + 1]] : r \in 0..(Len(s) - 1)}

\* The region is a single triangle with three different indices.
SingleTriangle(grp) ==
    /\ Len(grp) = 1
    /\ Cardinality(Range(Tri(grp[1]))) = 3

\* C5 as stated: a region that is a single triangle (i0, i1, i2) yields exactly
\* one polygon, a rotation of (i0, i1, i2).
C5_SingleTriangleKept ==
    pc = "done" =>
        \A n \in 1..Len(triangle_groups) :
            SingleTriangle(triangle_groups[n]) =>
                /\ Cardinality(PolysOf(n)) = 1
                /\ \A k \in PolysOf(n) :
                       final_polys[k] \in Rotations(Tri(triangle_groups[n][1]))

\* C5 amended: a region that is a single triangle (i0, i1, i2) yields exactly
\* one polygon, a rotation of the reversed triple (i2, i1, i0).
C5_SingleTriangleReversed ==
    pc = "done" =>
        \A n \in 1..Len(triangle_groups) :
            SingleTriangle(triangle_groups[n]) =>
                /\ Cardinality(PolysOf(n)) = 1
                /\ \A k \in PolysOf(n) :
                       final_polys[k] \in
                           Rotations(Reverse(Tri(triangle_groups[n][1])))

\* A finished run with a single-triangle region next to another region, and
\* the polygon of the single triangle.
C5_Witness ==
    /\ pc = "done"
    /\ Len(triangle_groups) >= 2
    /\ \E n \in 1..Len(triangle_groups) :
         SingleTriangle(triangle_groups[n]) /\ PolysOf(n) # {}

\* The mesh is two triangles (p0, p1, p2) and (p0, p2, p3) over four different
\* vertices, with face normals that pass the coplanarity test.
SplitQuad ==
    /\ NumTris = 2
    /\ Tri(0)[1] = Tri(1)[1]
    /\ Tri(0)[3] = Tri(1)[2]
    /\ Cardinality(Range(Tri(0)) \cup Range(Tri(1))) = 4
    /\ Coplanar(NormalOf(Tri(0)), NormalOf(Tri(1)), normal_tolerance)

\* C6 as stated: the triangles (p0, p1, p2) and (p0, p2, p3) merge into exactly
\* one polygon, in the cyclic order [p0, p1, p2, p3], and the diagonal p0-p2 is
\* not one of its edges.
C6_QuadInTriangleOrder ==
    pc = "done" /\ SplitQuad =>
        /\ Len(final_polys) = 1
        /\ final_polys[1] \in
               Rotations(<<Tri(0)[1], Tri(0)[2], Tri(0)[3], Tri(1)[3]>>)
        /\ EdgeKey(Tri(0)[1], Tri(0)[3]) \notin CycleEdges(final_polys[1])

\* C6 amended: they merge into exactly one polygon, in the cyclic order
\* [p3, p2, p1, p0], and the diagonal p0-p2 is not one of its edges.
C6_QuadInReverseOrder ==
    pc = "done" /\ SplitQuad =>
        /\ Len(final_polys) = 1
        /\ final_polys[1] \in
               Rotations(<<Tri(1)[3], Tri(0)[3], Tri(0)[2], Tri(0)[1]>>)
        /\ EdgeKey(Tri(0)[1], Tri(0)[3]) \notin CycleEdges(final_polys[1])

\* A finished run on the 2 x 1 rectangle cut along p0-p2, with its polygon.
C6_Witness ==
    /\ pc = "done"
    /\ SplitQuad
    /\ vertices = Rectangle.v
    /\ triangles = Rectangle.t
    /\ Len(final_polys) = 1

\* The mesh is the unit cube, two triangles per side.
IsCube == vertices = CubeVertices /\ NumTris = 12

\* C7: the cube's 12 triangles merge into exactly 6 polygons, each with 4
\* vertices, one per side of the cube.
C7_CubeSixQuads ==
    pc = "done" /\ IsCube =>
        /\ Len(final_polys) = 6
        /\ \A k \in 1..Len(final_polys) : Len(final_polys[k]) = 4
        /\ \A n \in 1..6 :
               Cardinality({k \in 1..Len(final_polys) :
                               Range(final_polys[k]) = Range(CubeSides[n])}) = 1

\* A finished run on a cube whose sides are not all cut along the same
\* diagonal.
C7_Witness ==
    /\ pc = "done"
    /\ IsCube
    /\ triangles # CubeTriangles(6, {})
    /\ triangles # CubeTriangles(6, 1..6)
    /\ Len(final_polys) = 6


\* Two different triangles with a common undirected edge (by vertex index).
ShareEdge(a, b) ==
    a # b /\ KeysOfTri(Tri(a)) \cap KeysOfTri(Tri(b)) # {}

\* The dot product of the exact unit normals of triangles a and b is at least
\* 1 - normal_tolerance: with D, A, B as in Coplanar and the tolerance p / q,
\* D > 0 and 1 - D^2 / (A B) <= 1 - (1 - p / q)^2.
UnitDotAtLeast(a, b) ==
    LET n1 == NormalOf(Tri(a))
        n2 == NormalOf(Tri(b))
        D == Dot(n1, n2)
        A == Dot(n1, n1)
        B == Dot(n2, n2)
        p == normal_tolerance[1]
        q == normal_tolerance[2]
    IN  /\ D > 0
        /\ ~FracLess(p * (2 * q - p), q * q, A * B - D * D, A * B)

\* The comparison of line 152 for triangles a and b.
PassTest(a, b) ==
    Coplanar(face_normals[a + 1], face_normals[b + 1], normal_tolerance)

\* The triangles linked to one of S by a chain of triangles in which each
\* shares an edge with the one before and passes the test against it.
RECURSIVE Chained(_)
Chained(S) ==
    LET T == S \cup {b \in 0..(NumTris - 1) :
                        \E a \in S : ShareEdge(a, b) /\ PassTest(a, b)}
    IN  IF T = S THEN S ELSE Chained(T)

SharePositionEdge(a, b) ==
    /\ a # b
    /\ \E e \in DirEdgesOfTri(Tri(a)), f \in DirEdgesOfTri(Tri(b)) :
         {Vertex(e[1]), Vertex(e[2])} = {Vertex(f[1]), Vertex(f[2])}

\* C9 as stated: two triangles whose common edge uses vertices of the same
\* positions under different indices are merged as if the indices were the
\* same: if they pass the coplanarity test they are in the same region.
C9_SamePositionEdgeMerged ==
    pc = "done" =>
        \A a, b \in 0..(NumTris - 1) :
            SharePositionEdge(a, b) /\ PassTest(a, b) => SameRegion(a, b)

\* C15: every polygon emitted, on non-manifold meshes too, has at least three
\* indices, holds no index twice (the start is not repeated at the end), and
\* holds only corners of triangles of the region it was built from; a region
\* left with fewer than three boundary edges after the cancellation has no
\* polygon.
C15_PolygonsWellFormed ==
    /\ \A k \in 1..Len(final_polys) :
          LET poly == final_polys[k]
              grp == triangle_groups[poly_group[k] + 1]
          IN  /\ Len(poly) >= 3
              /\ \A a, b \in 1..Len(poly) : poly[a] = poly[b] => a = b
              /\ \A a \in 1..Len(poly) :
                    \E n \in 1..Len(grp) : poly[a] \in Range(Tri(grp[n]))
    /\ pc = "done" =>
          \A n \in 1..Len(triangle_groups) :
              Len(CountGroup(triangle_groups[n], Len(triangle_groups[n]))) < 3
                  => PolysOf(n) = {}

\* A finished run on a mesh with a non-manifold edge that emitted a polygon
\* for a region of several triangles.
C15_Witness ==
    /\ pc = "done"
    /\ NonManifold
    /\ \E k \in 1..Len(final_polys) :
          Len(triangle_groups[poly_group[k] + 1]) > 1

\* The region's triangles as index triples, in the order of the group.
TriplesOf(grp) == [n \in 1..Len(grp) |-> Tri(grp[n])]

\* The directed edges of the first n of the triples ts that are left after
\* every edge has been cancelled against its opposite.
RECURSIVE SurvivingEdges(_, _)
SurvivingEdges(ts, n) ==
    IF n = 0 THEN <<>>
    ELSE CountTriangle(SurvivingEdges(ts, n - 1), ts[n])

\* The loop walked from vertex cur over the successor map es, lp being the
\* loop so far: <<>> if the walk was abandoned.
RECURSIVE Walked(_, _, _)
Walked(es, lp, cur) ==
    IF cur \notin Keys(es) THEN lp
    ELSE LET next_vertex == Lookup(es, cur)
         IN  IF next_vertex = lp[1] THEN Append(lp, next_vertex)
             ELSE IF InSeq(next_vertex, lp) \/ Len(lp) + 1 > MaxLoop THEN <<>>
             ELSE Walked(DelItem(es, cur), Append(lp, next_vertex), next_vertex)

\* What a region yields, as a function of its own triples alone: no polygon
\* or one.
YieldOf(ts) ==
    LET ec == SurvivingEdges(ts, Len(ts))
        es == SuccessorMap(ec, Len(ec))
    IN  IF Len(ec) < 3 \/ es = <<>> THEN <<>>
        ELSE LET lp == Walked(es, <<es[1][1]>>, es[1][1])
             IN  IF Len(lp) >= 4 /\ lp[1] = lp[Len(lp)]
                 THEN <<Reverse(Front(lp))>>
                 ELSE <<>>

\* The polygons emitted for the n-th region, in the order of emission.
EmittedFor(n) ==
    SelectSeq([k \in 1..Len(final_polys) |-> <<final_polys[k], poly_group[k]>>],
              LAMBDA e : e[2] = n - 1)

\* C17: abandoning a region is local.  What is emitted for a region (one
\* polygon or none) is a function of the region's own triangles, whatever
\* happened to the regions before it; an abandoned region does not end the
\* run: the run goes on to the last region.
C17_AbandoningIsLocal ==
    /\ Grouped =>
          \A n \in 1..Len(triangle_groups) :
              n <= gi =>
                  [k \in 1..Len(EmittedFor(n)) |-> EmittedFor(n)[k][1]]
                      = YieldOf(TriplesOf(triangle_groups[n]))
    /\ pc = "done" => gi = Len(triangle_groups)

\* A finished run in which an abandoned region (a pinched boundary, which
\* stops the walk at the revisited vertex) comes before a region with a polygon.
C17_Witness ==
    /\ pc = "done"
    /\ \E m, n \in 1..Len(triangle_groups) :
          /\ m < n
          /\ Len(SurvivingEdges(TriplesOf(triangle_groups[m]),
                                Len(triangle_groups[m]))) >= 3
          /\ PolysOf(m) = {}
          /\ PolysOf(n) # {}

\* A triangle holds an index that is not in 0..len(vertices)-1.
DanglingIndex == \E k \in CornerIndices : k \notin VertexIndices

\* C20: a mesh with a dangling vertex index, a negative one included, is
\* rejected with an error: no run on such a mesh gets past the indexing of
\* its triangles, and none emits a polygon.
C20_DanglingIndexRejected ==
    DanglingIndex => (pc \in {"index", "error"} /\ final_polys = <<>>)

\* C21 as stated: every two different triangles of a region are coplanar with
\* each other (their normals pass the test of line 152), whether or not they
\* share an edge.
C21_RegionsMutuallyCoplanar ==
    pc = "done" =>
        \A a, b \in 0..(NumTris - 1) :
            a # b /\ SameRegion(a, b) => PassTest(a, b)

\* The boundary extraction of the region in `group` is over: edge_count holds
\* its surviving directed edges.
Extracted ==
    \/ pc \in {"walk", "walked"}
    \/ pc \in {"polys", "done"} /\ gi > 0

\* How often the directed edge e occurs among the triangle edges of a region.
Occurrences(grp, e) ==
    Cardinality({w \in (1..Len(grp)) \X (0..2) : DirEdge(Tri(grp[w[1]]), w[2]) = e})

\* The directed triangle edges of a region.
DirEdgesOf(grp) == UNION {DirEdgesOfTri(Tri(grp[n])) : n \in 1..Len(grp)}

\* The directed edges of a region that occur exactly once and whose opposite
\* does not occur.
OnceAndUnopposed(grp) ==
    {e \in DirEdgesOf(grp) :
        Occurrences(grp, e) = 1 /\ Occurrences(grp, <<e[2], e[1]>>) = 0}

\* Every triangle of the region has three different indices.
ProperTriangles(grp) ==
    \A n \in 1..Len(grp) : Cardinality(Range(Tri(grp[n]))) = 3

\* C22 as stated: after the boundary extraction of a region (of proper
\* triangles), the edges left in edge_count are exactly the directed edges of
\* the region that occur once and whose opposite does not occur, also when an
\* edge is used by three or more triangles or twice in the same direction.
C22_SurvivorsOnceAndUnopposed ==
    Extracted /\ ProperTriangles(group) =>
        Range(edge_count) = OnceAndUnopposed(group)

\* Edge k of the triangle joins the vertex indices a and b, in either
\* direction.
JoinsAt(tri, k, a, b) ==
    \/ DirEdge(tri, k) = <<a, b>>
    \/ DirEdge(tri, k) = <<b, a>>

\* C23: the adjacency index holds, for every pair of vertex indices a <= b,
\* exactly the triangles with an edge between a and b, whatever the edge's
\* direction in the triangle (each triangle once per such edge, in no other
\* entry), also when three or more triangles share the edge; with indices
\* that can be looked up the index construction does not fail, and once the
\* flood fill is over every triangle is in a region.
C23_IndexHoldsEveryUser ==
    /\ pc \notin {"index", "error"} =>
          /\ \A idx \in 0..(NumTris - 1), j \in 0..2 :
                LET a == DirEdge(Tri(idx), j)[1]
                    b == DirEdge(Tri(idx), j)[2]
                    key == IF a <= b THEN <<a, b>> ELSE <<b, a>>
                IN  Cardinality({n \in 1..Len(edge_to_triangles[key]) :
                                    edge_to_triangles[key][n] = idx})
                      = Cardinality({k \in 0..2 : JoinsAt(Tri(idx), k, a, b)})
          /\ \A key \in DOMAIN edge_to_triangles :
                \A n \in 1..Len(edge_to_triangles[key]) :
                    /\ key[1] <= key[2]
                    /\ \E k \in 0..2 :
                          JoinsAt(Tri(edge_to_triangles[key][n]), k,
                                  key[1], key[2])
    /\ IndicesAccepted => pc # "error"
    /\ Grouped =>
          \A idx \in 0..(NumTris - 1) :
              \E n \in 1..Len(triangle_groups) : InSeq(idx, triangle_groups[n])

\* A finished run on a mesh with an edge that three triangles use, not all in
\* the same direction, all three entered in the index under the one key.
C23_Witness ==
    /\ pc = "done"
    /\ \E key \in DOMAIN edge_to_triangles :
          /\ Len(edge_to_triangles[key]) >= 3
          /\ \E m, n \in Range(edge_to_triangles[key]) :
                /\ key \in DirEdgesOfTri(Tri(m))
                /\ <<key[2], key[1]>> \in DirEdgesOfTri(Tri(n))

\* The pairs (u, v) of cyclically consecutive vertices of a polygon.
CyclicPairs(poly) ==
    {<<poly[k], poly[(k % Len(poly)) + 1]>> : k \in 1..Len(poly)}

\* The region (a group of triangle_groups) the k-th polygon was built from.
RegionOf(k) == triangle_groups[poly_group[k] + 1]

\* C24 as stated: every emitted polygon winds the same way as the triangles of
\* its region: each cyclically consecutive pair (u, v) of the polygon is a
\* directed edge of a triangle of the region.
C24_WindsAsTriangles ==
    \A k \in 1..Len(final_polys) :
        \A e \in CyclicPairs(final_polys[k]) : e \in DirEdgesOf(RegionOf(k))

\* C24 amended: every emitted polygon is the walked loop without its closing
\* vertex, back to front, and it winds opposite to the triangles of its
\* region: for each cyclically consecutive pair (u, v) of the polygon, (v, u)
\* is a directed edge of a triangle of the region.
C24_WindsOppositeToTriangles ==
    /\ \A k \in 1..Len(final_polys) :
          \A e \in CyclicPairs(final_polys[k]) :
              <<e[2], e[1]>> \in DirEdgesOf(RegionOf(k))
    /\ pc = "polys" /\ gi > 0 /\ PolysOf(gi) # {} =>
          LET poly == final_polys[Len(final_polys)]
          IN  /\ Len(poly) = Len(loop) - 1
              /\ \A j \in 1..Len(poly) : poly[j] = loop[Len(loop) - j]

\* The polygon of a merged region of several triangles has just been emitted
\* from a closed loop around four or more vertices.
C24_Witness ==
    /\ pc = "polys"
    /\ gi > 0
    /\ PolysOf(gi) # {}
    /\ Len(triangle_groups[gi]) >= 2
    /\ Len(loop) >= 5
    /\ loop[1] = loop[Len(loop)]

-----------------------------------------------------------------------------
(* remove_invalid_triangles. *)

\* np.all(u == v): the two corners have the same coordinates.
SamePosition(u, v) == \A c \in 1..3 : u[c] = v[c]

\* Invalid with the corners compared by index instead of by position.
InvalidByIndex(tri) ==
    tri[1] = tri[2] \/ tri[2] = tri[3] \/ tri[3] = tri[1]

\* invalid = same01 | same12 | same20, for one triangle.
Invalid(tri) ==
    \/ SamePosition(Vertex(tri[1]), Vertex(tri[2]))
    \/ SamePosition(Vertex(tri[2]), Vertex(tri[3]))
    \/ SamePosition(Vertex(tri[3]), Vertex(tri[1]))

\* Three different positions and a second entry (index 3) at the position of
\* vertex 1.
Doubled == <<<<0, 0, 0>>, <<1, 0, 0>>, <<0, 1, 0>>, <<1, 0, 0>>>>

\* Every index triple into an array of n vertices.
AllTriples(n) == (0..(n - 1)) \X (0..(n - 1)) \X (0..(n - 1))

\* Meshes of three triangles of which the middle one is collapsed, and meshes
\* with an index outside 0..3: -1 and -4 count from the end, 4 and -5 are
\* outside the array.
ValidateScenarios ==
    {<<<<0, 1, 2>>, <<0, 0, 1>>, <<2, 1, 0>>>>,
     <<<<2, 1, 0>>, <<1, 2, 3>>, <<0, 1, 2>>>>,
     <<<<0, 1, 2>>, <<0, 2, -1>>>>,
     <<<<0, 1, -1>>, <<-4, 1, 2>>>>,
     <<<<0, 1, 2>>, <<0, 2, 4>>>>,
     <<<<0, 1, -5>>>>}

InitValidate ==
    /\ vertices = Doubled
    /\ triangles \in
          SeqsUpTo(AllTriples(4), MaxTris) \cup {<<>>} \cup ValidateScenarios
    /\ normal_tolerance = DefaultTolerance
    /\ pc = "validate"
    /\ face_normals = <<>>
    /\ edge_to_triangles = <<>>
    /\ used = {}
    /\ triangle_groups = <<>>
    /\ i = 0
    /\ group = <<>>
    /\ queue = <<>>
    /\ gi = 0
    /\ edge_count = <<>>
    /\ edges = <<>>
    /\ loop = <<>>
    /\ current = 0
    /\ final_polys = <<>>
    /\ poly_group = <<>>
    /\ removed = 0
    /\ unit_exp = 0
    /\ grid_size = 1
    /\ min_faces = 0
    /\ stages = <<>>
    /\ number = <<0, 0>>
    /\ precision = 0
    /\ text = <<>>
    /\ written = <<>>
    /\ loaded = vertices

\* KeptFaces with the surviving faces in the opposite order.
KeptFacesReversed(faces) ==
    Reverse(SelectSeq(faces, LAMBDA tri : ~Invalid(tri)))

\* mesh.faces[~invalid]
KeptFaces(faces) == SelectSeq(faces, LAMBDA tri : ~Invalid(tri))

\* Lines 63-73; v = mesh.vertices[mesh.faces] raises IndexError on an index
\* outside the array.
RemoveInvalidTriangles ==
    /\ pc = "validate"
    /\ IF IndicesAccepted
       THEN /\ triangles' = KeptFaces(triangles)
            /\ removed' =
                  Cardinality({n \in 1..Len(triangles) : Invalid(triangles[n])})
            /\ stages' = Append(stages, "remove_invalid_triangles")
            /\ pc' = "validated"
       ELSE /\ pc' = "error"
            /\ UNCHANGED <<triangles, removed, stages>>
    /\ UNCHANGED <<vertices, normal_tolerance, args, fmtVars, written, loaded,
                   mergeVars>>

NextValidate == RemoveInvalidTriangles

SpecValidate == InitValidate /\ [][NextValidate]_vars

\* Number of places of the tuple s at which x stands.
Count(x, s) == Cardinality({n \in 1..Len(s) : s[n] = x})

\* At least two of the three corners of the triangle have equal coordinates.
TwoCornersCoincide(tri) ==
    \E a, b \in 1..3 : a # b /\ Vertex(tri[a]) = Vertex(tri[b])

\* C10: remove_invalid_triangles removes a triangle if and only if at least two
\* of its corners have equal coordinates: no such triangle is left, and every
\* other triangle is left as often as it stood in the input (on a mesh whose
\* indices the vertex array accepts).
C10_RemovesExactlyCollapsed ==
    [][(pc = "validate" /\ IndicesAccepted) =>
          /\ Range(triangles') \subseteq Range(triangles)
          /\ \A tri \in Range(triangles) :
                IF TwoCornersCoincide(tri)
                THEN Count(tri, triangles') = 0
                ELSE Count(tri, triangles') = Count(tri, triangles)]_vars

\* A validated mesh of two triangles, one of which was removed and one kept.
C10_Witness ==
    /\ pc = "validated"
    /\ removed = 1
    /\ Len(triangles) = 1

\* The places of the faces whose three corners lie at three distinct positions.
DistinctCornerPlaces(faces) ==
    {n \in 1..Len(faces) : ~TwoCornersCoincide(faces[n])}

\* The k-th smallest element of the set K of numbers.
NthOf(K, k) == CHOOSE n \in K : Cardinality({m \in K : m < n}) = k - 1

\* C11: remove_invalid_triangles is a stable filter.  On a mesh whose indices
\* the vertex array accepts it ends without an error, whatever the number of
\* faces it removes; the faces left are the faces with three distinct corner
\* positions, in their original relative order and with their index triples
\* unchanged; the vertex array is unchanged.
C11_StableFilter ==
    [][(pc = "validate" /\ IndicesAccepted) =>
          /\ pc' = "validated"
          /\ vertices' = vertices
          /\ Len(triangles') = Cardinality(DistinctCornerPlaces(triangles))
          /\ \A k \in 1..Len(triangles') :
                triangles'[k] =
                    triangles[NthOf(DistinctCornerPlaces(triangles), k)]]_vars

\* A validated mesh that lost one face and kept two different faces.
C11_Witness ==
    /\ pc = "validated"
    /\ removed = 1
    /\ Len(triangles) = 2
    /\ triangles[1] # triangles[2]

-----------------------------------------------------------------------------
(* quantize_vertices. *)

\* Largest absolute value of a coordinate of an enumerated vertex.
MaxCoord == 3

\* Largest enumerated grid size.
MaxGrid == 4

\* np.round(c / g) for integers c and g > 0: the integer nearest to c / g, a
\* tie going to the even one.
RoundHalfEven(c, g) ==
    LET f == c \div g
        r == c % g
    IN  IF 2 * r < g THEN f
        ELSE IF 2 * r > g THEN f + 1
        ELSE IF f % 2 = 0 THEN f ELSE f + 1

\* Quantized without the multiplication by the grid size.
QuantizedUnscaled(c, g) == RoundHalfEven(c, g)

\* np.round(c / grid_size) * grid_size, for one coordinate.
Quantized(c, g) == RoundHalfEven(c, g) * g

\* np.round(mesh.vertices / grid_size) * grid_size
quantize_vertices(vs, g) ==
    [k \in 1..Len(vs) |->
        <<Quantized(vs[k][1], g), Quantized(vs[k][2], g), Quantized(vs[k][3], g)>>]

\* No merge has run.
MergeIdle ==
    /\ face_normals = <<>>
    /\ edge_to_triangles = <<>>
    /\ used = {}
    /\ triangle_groups = <<>>
    /\ i = 0
    /\ group = <<>>
    /\ queue = <<>>
    /\ gi = 0
    /\ edge_count = <<>>
    /\ edges = <<>>
    /\ loop = <<>>
    /\ current = 0
    /\ final_polys = <<>>
    /\ poly_group = <<>>

\* Nothing has been formatted or written.
ExportIdle ==
    /\ number = <<0, 0>>
    /\ precision = 0
    /\ text = <<>>
    /\ written = <<>>

Coords == (-MaxCoord)..MaxCoord

\* Two vertices, and a grid size of 1..MaxGrid units.
InitQuantize ==
    /\ vertices \in
          {<<<<a[1], a[2], 0>>, <<b[1], b[2], z>>>> :
              a \in Coords \X Coords, b \in Coords \X Coords, z \in {0, 1}}
    /\ triangles = <<>>
    /\ normal_tolerance = DefaultTolerance
    /\ pc = "quantize"
    /\ MergeIdle
    /\ removed = 0
    /\ unit_exp = 0
    /\ grid_size \in 1..MaxGrid
    /\ min_faces = 0
    /\ stages = <<>>
    /\ ExportIdle
    /\ loaded = vertices

\* Lines 98-101.
QuantizeVertices ==
    /\ pc = "quantize"
    /\ vertices' = quantize_vertices(vertices, grid_size)
    /\ stages' = Append(stages, "quantize_vertices")
    /\ pc' = "quantized"
    /\ UNCHANGED <<triangles, normal_tolerance, removed, args, fmtVars, written,
                   loaded, mergeVars>>

\* Lines 98-101, called once more on its own result.
QuantizeAgain ==
    /\ pc = "quantized"
    /\ vertices' = quantize_vertices(vertices, grid_size)
    /\ pc' = "requantized"
    /\ UNCHANGED <<triangles, normal_tolerance, removed, args, stages, fmtVars,
                   written, loaded, mergeVars>>

NextQuantize == QuantizeVertices \/ QuantizeAgain

SpecQuantize == InitQuantize /\ [][NextQuantize]_vars

\* C12: quantize_vertices is idempotent: quantizing an already quantized mesh
\* with the same grid size leaves every coordinate as it is.
C12_Idempotent ==
    [][pc = "quantized" => vertices' = vertices]_vars

\* A mesh quantized twice, whose first vertex was off the grid on both axes
\* when it was loaded.
C12_Witness ==
    /\ pc = "requantized"
    /\ grid_size > 1
    /\ loaded[1][1] % grid_size # 0
    /\ loaded[1][2] % grid_size # 0

\* The two vertices are less than half a grid size apart: 4 d^2 < g^2.
Near(u, v, g) == 4 * Dot(Sub(u, v), Sub(u, v)) < g * g

\* C13 as stated: two vertices less than half a grid size apart are quantized
\* to identical coordinates.
C13_NearVerticesCoincide ==
    [][(pc = "quantize" /\ Near(vertices[1], vertices[2], grid_size)) =>
          vertices'[1] = vertices'[2]]_vars

\* C13: two vertices less than half a grid size apart are quantized to
\* coordinates that on every axis are equal or exactly one grid size apart.
C13_NearVerticesWithinOneStep ==
    [][(pc = "quantize" /\ Near(vertices[1], vertices[2], grid_size)) =>
          \A c \in 1..3 :
              Abs(vertices'[1][c] - vertices'[2][c]) \in {0, grid_size}]_vars

\* Two different vertices that were less than half a grid size apart when
\* loaded and are one grid size apart on the first axis after quantization.
C13_Witness ==
    /\ pc = "quantized"
    /\ Near(loaded[1], loaded[2], grid_size)
    /\ vertices[1][1] - vertices[2][1] = grid_size

-----------------------------------------------------------------------------
(* remove_zero_area_triangles. *)

RECURSIVE Pow10(_)
Pow10(e) == IF e = 0 THEN 1 ELSE 10 * Pow10(e - 1)

\* The squared length of the cross product of two edges of the triangle, in
\* units of 10^-unit_exp to the fourth: the area is half its square root.
CrossSquared(tri) ==
    LET c == Cross(Sub(Vertex(tri[2]), Vertex(tri[1])),
                   Sub(Vertex(tri[3]), Vertex(tri[1])))
    IN  Dot(c, c)

\* The mask with ">= 0" in the place of "> 1e-12".
AreaNotNegative(tri) == CrossSquared(tri) >= 0

\* areas > 1e-12 for one triangle: sqrt(X) / 2 * 10^(-2 unit_exp) > 10^-12,
\* that is X > 4 * 10^(4 unit_exp - 24); a positive integer X is above every
\* such bound below 1.
AreaAboveEpsilon(tri) ==
    IF 4 * unit_exp >= 24
    THEN CrossSquared(tri) > 4 * Pow10(4 * unit_exp - 24)
    ELSE CrossSquared(tri) > 0

\* Three points on a line and a fourth off it; in units of 10^-6 the triangles
\* 013 and 123 have the area 10^-12 and 023 has twice that.
Sliver == <<<<0, 0, 0>>, <<1, 0, 0>>, <<2, 0, 0>>, <<0, 2, 0>>>>

\* Three-triangle meshes with a collinear middle face.
ZeroAreaScenarios ==
    {<<<<0, 2, 3>>, <<0, 1, 2>>, <<3, 2, 0>>>>,
     <<<<3, 2, 0>>, <<2, 2, 1>>, <<0, 2, 3>>>>}

\* Every mesh of up to MaxTris triangles over Sliver, in units of 1 and of
\* 10^-6.
InitZeroArea ==
    /\ vertices = Sliver
    /\ triangles \in
          SeqsUpTo(AllTriples(4), MaxTris) \cup {<<>>} \cup ZeroAreaScenarios
    /\ normal_tolerance = DefaultTolerance
    /\ pc = "quantized"
    /\ MergeIdle
    /\ removed = 0
    /\ unit_exp \in {0, 6}
    /\ grid_size = 1
    /\ min_faces = 0
    /\ stages = <<>>
    /\ ExportIdle
    /\ loaded = vertices

\* Lines 103-110; mesh.triangles is mesh.vertices[mesh.faces].
RemoveZeroAreaTriangles ==
    /\ pc = "quantized"
    /\ IF IndicesAccepted
       THEN /\ triangles' = SelectSeq(triangles, AreaAboveEpsilon)
            /\ removed' = Len(triangles) - Len(triangles')
            /\ stages' = Append(stages, "remove_zero_area_triangles")
            /\ pc' = "filtered"
       ELSE /\ pc' = "error"
            /\ UNCHANGED <<triangles, removed, stages>>
    /\ UNCHANGED <<vertices, normal_tolerance, args, fmtVars, written, loaded,
                   mergeVars>>

NextZeroArea == RemoveZeroAreaTriangles

SpecZeroArea == InitZeroArea /\ [][NextZeroArea]_vars

\* The three corners lie on one line (two of them may coincide).
Collinear(tri) ==
    Cross(Sub(Vertex(tri[2]), Vertex(tri[1])),
          Sub(Vertex(tri[3]), Vertex(tri[1]))) = <<0, 0, 0>>

\* The triangle's area is above 10^-12: four times the squared area, in units
\* of 10^-24, is above 4.
AboveEpsilon(tri) ==
    IF unit_exp = 0 THEN ~Collinear(tri)
    ELSE CrossSquared(tri) * Pow10(24 - 4 * unit_exp) > 4

-----------------------------------------------------------------------------
(* format_number. *)

\* Largest absolute value of the numerator m of an enumerated number m / 10^d.
MaxNumber == 120

\* Largest enumerated number of decimals d of a number m / 10^d.
MaxDecimals == 2

\* Largest enumerated precision.
MaxPrecision == 2

DigitChars == <<"0", "1", "2", "3", "4", "5", "6", "7", "8", "9">>

\* The decimal digits of the natural number k.
RECURSIVE DigitsOf(_)
DigitsOf(k) ==
    IF k < 10 THEN <<DigitChars[k + 1]>>
    ELSE Append(DigitsOf(k \div 10), DigitChars[(k % 10) + 1])

\* The text s with zeros put in front until it has w characters.
RECURSIVE ZeroPadded(_, _)
ZeroPadded(s, w) == IF Len(s) >= w THEN s ELSE ZeroPadded(<<"0">> \o s, w)

\* |n| in units of 10^-p, rounded to the nearest integer (a tie to the even
\* one), for n = m / 10^d = num[1] / 10^num[2].
RoundedTo(num, p) ==
    IF p >= num[2] THEN Abs(num[1]) * Pow10(p - num[2])
    ELSE RoundHalfEven(Abs(num[1]), Pow10(num[2] - p))

\* "{:.pf}".format(n): a minus sign for a negative n, the integer part (at
\* least one digit) and, if p > 0, the point and exactly p decimals.
FixedPoint(num, p) ==
    LET r == RoundedTo(num, p)
    IN  (IF num[1] < 0 THEN <<"-">> ELSE <<>>)
          \o DigitsOf(r \div Pow10(p))
          \o (IF p > 0 THEN <<".">> \o ZeroPadded(DigitsOf(r % Pow10(p)), p)
              ELSE <<>>)

\* s.rstrip(ch)
RECURSIVE RStrip(_, _)
RStrip(s, ch) ==
    IF s # <<>> /\ s[Len(s)] = ch THEN RStrip(Front(s), ch) ELSE s

\* s.startswith(prefix)
StartsWith(s, prefix) ==
    Len(s) >= Len(prefix) /\ SubSeq(s, 1, Len(prefix)) = prefix

\* Lines 208-217.
format_number(num, p) ==
    LET s0 == RStrip(RStrip(FixedPoint(num, p), "0"), ".")
    IN  IF StartsWith(s0, <<"-", "0", ".">>)
        THEN <<"-">> \o SubSeq(s0, 3, Len(s0))
        ELSE IF StartsWith(s0, <<"0", ".">>) THEN Tail(s0)
        ELSE IF s0 = <<"-", "0">> THEN <<"0">>
        ELSE s0

RECURSIVE Pow5(_)
Pow5(e) == IF e = 0 THEN 1 ELSE 5 * Pow5(e - 1)

\* A float is rounded to p decimals as the number m / 10^d it stands for is:
\* m / 10^d is no tie of that rounding, or it is a float itself (5^d divides
\* m), and a tie goes to the even neighbour.
RoundsAsWritten(num, p) ==
    IF p >= num[2] THEN TRUE
    ELSE IF 2 * (Abs(num[1]) % Pow10(num[2] - p)) # Pow10(num[2] - p) THEN TRUE
    ELSE num[1] % Pow5(num[2]) = 0

InitFormat ==
    /\ vertices = <<>>
    /\ triangles = <<>>
    /\ normal_tolerance = DefaultTolerance
    /\ pc = "format"
    /\ MergeIdle
    /\ removed = 0
    /\ unit_exp = 0
    /\ grid_size = 1
    /\ min_faces = 0
    /\ stages = <<>>
    /\ number \in ((-MaxNumber)..MaxNumber) \X (0..MaxDecimals)
    /\ precision \in 0..MaxPrecision
    /\ RoundsAsWritten(number, precision)
    /\ text = <<>>
    /\ written = <<>>
    /\ loaded = vertices

\* One call of format_number.
FormatNumber ==
    /\ pc = "format"
    /\ text' = format_number(number, precision)
    /\ pc' = "formatted"
    /\ UNCHANGED <<vertices, triangles, normal_tolerance, removed, args, stages,
                   number, precision, written, loaded, mergeVars>>

NextFormat == FormatNumber

SpecFormat == InitFormat /\ [][NextFormat]_vars

\* The number a text of digits stands for (0 for the empty text).
RECURSIVE NumberOf(_)
NumberOf(ds) ==
    IF ds = <<>> THEN 0
    ELSE 10 * NumberOf(Front(ds))
           + (CHOOSE k \in 0..9 : DigitChars[k + 1] = ds[Len(ds)])

\* The text without its sign.
Unsigned(s) == IF s # <<>> /\ s[1] = "-" THEN Tail(s) ELSE s

\* The place of the decimal point in the text, Len + 1 if it has none.
PointOf(s) ==
    IF InSeq(".", s) THEN CHOOSE k \in 1..Len(s) : s[k] = "." ELSE Len(s) + 1

IntegerDigits(s) == SubSeq(Unsigned(s), 1, PointOf(Unsigned(s)) - 1)

FractionDigits(s) ==
    SubSeq(Unsigned(s), PointOf(Unsigned(s)) + 1, Len(Unsigned(s)))

\* The text is a decimal numeral of at most p decimals: an optional sign,
\* digits, optionally a point and digits, with at least one digit in all.
Numeral(s, p) ==
    /\ Range(IntegerDigits(s)) \cup Range(FractionDigits(s)) \subseteq Range(DigitChars)
    /\ Len(IntegerDigits(s)) + Len(FractionDigits(s)) > 0
    /\ Len(FractionDigits(s)) <= p

\* The value of a numeral of at most p decimals, in units of 10^-p.
Denoted(s, p) ==
    (IF s[1] = "-" THEN -1 ELSE 1)
      * (NumberOf(IntegerDigits(s)) * Pow10(p)
           + NumberOf(FractionDigits(s)) * Pow10(p - Len(FractionDigits(s))))

\* n rounded to p decimals, in units of 10^-p.
RoundedValue(num, p) ==
    (IF num[1] < 0 THEN -1 ELSE 1) * RoundedTo(num, p)

\* C19: for every number and every precision p >= 0, p = 0 included, the text
\* format_number returns is not empty and is a numeral that denotes the
\* number rounded to p decimals (so no digit of the integer part is missing
\* and the sign of a nonzero result is kept); it is "0" for every number that
\* rounds to zero.
C19_DenotesRoundedNumber ==
    pc = "formatted" =>
        /\ text # <<>>
        /\ Numeral(text, precision)
        /\ Denoted(text, precision) = RoundedValue(number, precision)
        /\ RoundedValue(number, precision) = 0 => text = <<"0">>

-----------------------------------------------------------------------------
(* export_openscad_structure. *)

\* Largest number of polygons of an enumerated polygon list.
MaxPolys == 2

\* sep.join(parts)
RECURSIVE JoinWith(_, _)
JoinWith(parts, sep) ==
    IF parts = <<>> THEN <<>>
    ELSE IF Len(parts) = 1 THEN parts[1]
    ELSE JoinWith(Front(parts), sep) \o sep \o parts[Len(parts)]

\* Str with the index counted from 1.
StrFromOne(k) == IF k + 1 < 0 THEN <<"-">> \o DigitsOf(-(k + 1)) ELSE DigitsOf(k + 1)

\* str(i) for an integer i
Str(k) == IF k < 0 THEN <<"-">> \o DigitsOf(-k) ELSE DigitsOf(k)

\* "[" + ",".join(format_number(c, precision) for c in v) + "]"
VertexText(v, p) ==
    <<"[">> \o JoinWith([c \in 1..Len(v) |-> format_number(<<v[c], unit_exp>>, p)],
                        <<",">>)
          \o <<"]">>

\* "[" + ",".join(str(i) for i in poly) + "]"
PolygonText(poly) ==
    <<"[">> \o JoinWith([k \in 1..Len(poly) |-> Str(poly[k])], <<",">>) \o <<"]">>

\* The four f.write calls of lines 220-225, for the variable name varname.
export_openscad_structure(vs, polys, varname, p) ==
    varname \o <<"=", "[", "\n", "[">>
        \o JoinWith([k \in 1..Len(vs) |-> VertexText(vs[k], p)], <<",">>)
        \o <<"]", ",", "\n", "[">>
        \o JoinWith([k \in 1..Len(polys) |-> PolygonText(polys[k])], <<",">>)
        \o <<"]", "]", ";", "\n">>

\* varname = f"{name}{shell_index}" for the output file "m.scad" and shell 0.
VarName == <<"m">> \o Str(0)

\* Eleven vertices on a line, for indices of two digits.
Eleven == [k \in 1..11 |-> <<k - 1, 0, 0>>]

\* Polygons over an array of four vertices: every triple of different indices
\* and two quadrilaterals.
ExportPolygons == IndexTriples(4) \cup {<<0, 1, 2, 3>>, <<3, 2, 1, 0>>}

\* A vertex array and a polygon list as merge_coplanar_triangles may have
\* left them, and a precision.
InitExport ==
    /\ \E e \in
            {[v |-> w, f |-> ps] :
                w \in {Square, Doubled, <<<<-5, 0, 15>>, <<10, 100, 0>>,
                                          <<0, -10, 5>>, <<5, 5, -100>>>>},
                ps \in SeqsUpTo(ExportPolygons, MaxPolys) \cup {<<>>}}
            \cup {[v |-> Eleven, f |-> <<<<10, 9, 0>>, <<0, 9, 10>>>>],
                  [v |-> Square, f |-> <<<<-1, 2, 1, 0>>>>]} :
         /\ vertices = e.v
         /\ final_polys = e.f
         /\ poly_group = [k \in 1..Len(e.f) |-> k - 1]
    /\ triangles = <<>>
    /\ normal_tolerance = DefaultTolerance
    /\ pc = "done"
    /\ face_normals = <<>>
    /\ edge_to_triangles = <<>>
    /\ used = {}
    /\ triangle_groups = <<>>
    /\ i = 0
    /\ group = <<>>
    /\ queue = <<>>
    /\ gi = 0
    /\ edge_count = <<>>
    /\ edges = <<>>
    /\ loop = <<>>
    /\ current = 0
    /\ removed = 0
    /\ unit_exp \in {0, 1}
    /\ grid_size = 1
    /\ min_faces = 0
    /\ stages = <<>>
    /\ number = <<0, 0>>
    /\ precision \in {0, 1}
    /\ text = <<>>
    /\ written = <<>>
    /\ loaded = vertices

\* Lines 219-226.
ExportOpenscadStructure ==
    /\ pc = "done"
    /\ written' = written
          \o export_openscad_structure(vertices, final_polys, VarName, precision)
    /\ stages' = Append(stages, "export_openscad_structure")
    /\ pc' = "exported"
    /\ UNCHANGED <<vertices, triangles, normal_tolerance, removed, args, fmtVars,
                   loaded, mergeVars>>

NextExport == ExportOpenscadStructure

SpecExport == InitExport /\ [][NextExport]_vars

\* The place of the first ch in the text s at or after place k (there is one).
FirstAt(s, ch, k) ==
    CHOOSE q \in k..Len(s) : s[q] = ch /\ \A r \in k..(q - 1) : s[r] # ch

\* The two arrays of the written text "...=[\n[ A ],\n[ B ]];\n": what stands
\* between the bracket after the first line break and the "]," before the
\* second, and between the bracket after the second line break and the "]];"
\* before the third.
VertexArrayText(s) ==
    LET a == FirstAt(s, "\n", 1)
        b == FirstAt(s, "\n", a + 1)
    IN  SubSeq(s, a + 2, b - 3)

FaceArrayText(s) ==
    LET a == FirstAt(s, "\n", 1)
        b == FirstAt(s, "\n", a + 1)
        c == FirstAt(s, "\n", b + 1)
    IN  SubSeq(s, b + 2, c - 4)

\* The elements of an array text "[x],[y],...", without their brackets.
RECURSIVE Elements(_)
Elements(t) ==
    IF t = <<>> THEN <<>>
    ELSE LET q == FirstAt(t, "]", 1)
         IN  <<SubSeq(t, 2, q - 1)>> \o Elements(SubSeq(t, q + 2, Len(t)))

\* The fields of a text "x,y,...": at least one, possibly empty.
RECURSIVE Fields(_)
Fields(t) ==
    IF ~InSeq(",", t) THEN <<t>>
    ELSE LET q == FirstAt(t, ",", 1)
         IN  <<SubSeq(t, 1, q - 1)>> \o Fields(SubSeq(t, q + 1, Len(t)))

\* The integer a text of an optional sign and digits stands for.
IntegerOf(t) ==
    IF t # <<>> /\ t[1] = "-" THEN -NumberOf(Tail(t)) ELSE NumberOf(t)

\* C18: export_openscad_structure neither renumbers nor reorders.  Read back
\* from the written text, the vertex array has one element per vertex, in the
\* order of the vertex array, each the three formatted coordinates of that
\* vertex; the face array has one element per polygon, in the order of the
\* polygon list, each holding the polygon's indices as given: index k of a
\* written face is the k-th written vertex.
C18_WrittenAsGiven ==
    pc = "exported" =>
        LET V == Elements(VertexArrayText(written))
            F == Elements(FaceArrayText(written))
        IN  /\ Len(V) = Len(vertices)
            /\ \A k \in 1..Len(V) :
                  Fields(V[k]) =
                      [c \in 1..3 |->
                          format_number(<<vertices[k][c], unit_exp>>, precision)]
            /\ Len(F) = Len(final_polys)
            /\ \A k \in 1..Len(F) :
                  [j \in 1..Len(Fields(F[k])) |-> IntegerOf(Fields(F[k])[j])]
                      = final_polys[k]

\* A written shell of four different vertices and two different polygons, the
\* first of which does not name the vertices in ascending order.
C18_Witness ==
    /\ pc = "exported"
    /\ vertices = Square
    /\ Len(final_polys) = 2
    /\ final_polys[1] # final_polys[2]
    /\ final_polys[1][1] > final_polys[1][2]

-----------------------------------------------------------------------------
(* main: the processing of one shell, lines 273-309. *)

\* floor(log10(g)) for an integer g >= 1.
RECURSIVE FloorLog10(_)
FloorLog10(g) == IF g < 10 THEN 0 ELSE 1 + FloorLog10(g \div 10)

\* Line 242, for args.quantize = g * 10^-u > 0:
\* max(0, -int(np.floor(np.log10(args.quantize)))).
PrecisionOf(g, u) ==
    IF u - FloorLog10(g) > 0 THEN u - FloorLog10(g) ELSE 0

\* A triangle with its winding reversed.
Flipped(tri) == <<tri[1], tri[3], tri[2]>>

\* What trimesh.repair.fix_normals and the repair calls before it (library
\* code) may leave of the faces: each face as it was or with its winding
\* reversed.
Rewound(faces) ==
    {[n \in 1..Len(faces) |-> IF n \in S THEN Flipped(faces[n]) ELSE faces[n]] :
        S \in SUBSET (1..Len(faces))}

\* The vertex indices the faces refer to.
Referenced(faces) == UNION {Range(faces[n]) : n \in 1..Len(faces)}

\* shell.remove_unreferenced_vertices(): the referenced vertices, in their
\* order, and the faces renumbered to them.
CompactedVertices(vs, faces) ==
    [j \in 1..Cardinality(Referenced(faces)) |->
        vs[NthOf(Referenced(faces), j) + 1]]

CompactedFaces(faces) ==
    [n \in 1..Len(faces) |->
        [c \in 1..3 |->
            Cardinality({r \in Referenced(faces) : r < faces[n][c]})]]

\* A flat square of side 4 with a fifth vertex inside it, one unit from the
\* corner 1, and the four triangles around that vertex.
Kite ==
    [v |-> <<<<0, 0, 0>>, <<4, 0, 0>>, <<4, 4, 0>>, <<0, 4, 0>>, <<3, 1, 0>>>>,
     t |-> <<<<0, 1, 4>>, <<1, 2, 4>>, <<2, 3, 4>>, <<3, 0, 4>>>>]

\* A tetrahedron with its corners on every enumerated grid.
Tetrahedron ==
    [v |-> <<<<0, 0, 0>>, <<4, 0, 0>>, <<0, 4, 0>>, <<0, 0, 4>>>>,
     t |-> <<<<0, 2, 1>>, <<0, 1, 3>>, <<0, 3, 2>>, <<1, 2, 3>>>>]

\* A tetrahedron one unit high (flat on a grid of 4 units), a collapsed face
\* and a vertex no face refers to.
Flake ==
    [v |-> <<<<0, 0, 0>>, <<9, 9, 9>>, <<8, 0, 0>>, <<0, 8, 0>>, <<3, 3, 1>>>>,
     t |-> <<<<0, 3, 2>>, <<0, 2, 4>>, <<2, 3, 4>>, <<3, 0, 4>>, <<2, 2, 3>>>>]

\* One shell as load_mesh and split_into_shells hand it over, and the
\* arguments --quantize (grid_size * 10^-unit_exp) and --min-faces.
InitMain ==
    /\ \E m \in {Kite, Tetrahedron, Flake} :
         /\ vertices = m.v
         /\ triangles = m.t
    /\ normal_tolerance = DefaultTolerance
    /\ pc = "validate"
    /\ MergeIdle
    /\ removed = 0
    /\ unit_exp \in {0, 1}
    /\ grid_size \in {1, 2, 4}
    /\ min_faces \in {1, 4}
    /\ stages = <<>>
    /\ number = <<0, 0>>
    /\ precision = PrecisionOf(grid_size, unit_exp)
    /\ text = <<>>
    /\ written = <<>>
    /\ loaded = vertices

\* Lines 277-292 with args.tolerance = 0 (no decimation): the repair calls and
\* trimesh.repair.fix_normals.
FixNormals ==
    /\ pc = "validated"
    /\ triangles' \in Rewound(triangles)
    /\ pc' = "quantize"
    /\ UNCHANGED <<vertices, normal_tolerance, removed, args, stages, fmtVars,
                   written, loaded, mergeVars>>

\* Line 295.
RemoveUnreferencedVertices ==
    /\ pc = "filtered"
    /\ vertices' = CompactedVertices(vertices, triangles)
    /\ triangles' = CompactedFaces(triangles)
    /\ pc' = "compacted"
    /\ UNCHANGED <<normal_tolerance, removed, args, stages, fmtVars, written,
                   loaded, mergeVars>>

\* Lines 297-308: the shell is skipped, or handed to merge_coplanar_triangles.
CheckMinFaces ==
    /\ pc = "compacted"
    /\ pc' = IF Len(triangles) < min_faces THEN "skipped" ELSE "index"
    /\ UNCHANGED <<input, mergeVars>>

NextMain ==
    \/ RemoveInvalidTriangles
    \/ FixNormals
    \/ QuantizeVertices
    \/ RemoveZeroAreaTriangles
    \/ RemoveUnreferencedVertices
    \/ CheckMinFaces
    \/ Next
    \/ ExportOpenscadStructure

SpecMain == InitMain /\ [][NextMain]_vars

\* The stages of the claim, in its order.
StageOrder ==
    <<"remove_invalid_triangles", "quantize_vertices",
      "remove_zero_area_triangles", "merge_coplanar_triangles",
      "export_openscad_structure">>

\* merge_coplanar_triangles has been called.
InMerge == pc \in {"index", "flood", "fill", "polys", "walk", "walked", "done"}

-----------------------------------------------------------------------------
(* The loop walk on regions with long boundaries. *)

\* A flat convex polygon of n vertices, vertex k at (k, k^2, 0), cut into the
\* fan of n - 2 triangles (0, k, k + 1) around vertex 0.
DiscVertices(n) == [k \in 1..n |-> <<k - 1, (k - 1) * (k - 1), 0>>]

DiscTriangles(n) == [k \in 1..(n - 2) |-> <<0, k, k + 1>>]

\* Numbers of vertices of the discs: small ones, and those at the safety bound
\* of the walk.
DiscSizes == {3, 4, 5, 6, MaxLoop - 1, MaxLoop, MaxLoop + 1}

\* The state at line 163 for a disc: all its triangles are coplanar and the
\* flood fill, started at triangle 0, has taken them up in the order of the
\* list into one group.  The adjacency index, which is not read after line
\* 157, is left out.
InitWalk ==
    /\ \E n \in DiscSizes :
         /\ vertices = DiscVertices(n)
         /\ triangles = DiscTriangles(n)
    /\ normal_tolerance = DefaultTolerance
    /\ pc = "polys"
    /\ face_normals = [k \in 1..NumTris |-> <<0, 0, 1>>]
    /\ edge_to_triangles = <<>>
    /\ used = 0..(NumTris - 1)
    /\ triangle_groups = <<[k \in 1..NumTris |-> k - 1]>>
    /\ i = NumTris
    /\ group = [k \in 1..NumTris |-> k - 1]
    /\ queue = <<>>
    /\ gi = 0
    /\ edge_count = <<>>
    /\ edges = <<>>
    /\ loop = <<>>
    /\ current = 0
    /\ final_polys = <<>>
    /\ poly_group = <<>>
    /\ removed = 0
    /\ unit_exp = 0
    /\ grid_size = 1
    /\ min_faces = 0
    /\ stages = <<>>
    /\ number = <<0, 0>>
    /\ precision = 0
    /\ text = <<>>
    /\ written = <<>>
    /\ loaded = vertices

NextWalk ==
    \/ ExtractBoundary
    \/ WalkStep
    \/ EmitLoop
    \/ Return

SpecWalk == InitWalk /\ [][NextWalk]_vars

\* The edges in ec are the closed loop 0 -> 1 -> ... -> n - 1 -> 0 through n
\* vertices, n >= 3: one simple cycle.
RingByIndex(ec) ==
    /\ Len(ec) >= 3
    /\ Range(ec) = {<<k, (k + 1) % Len(ec)>> : k \in 0..(Len(ec) - 1)}

\* C25 as stated, for the regions whose boundary is the simple cycle
\* 0 -> 1 -> ... -> n - 1 -> 0: such a region is emitted whatever the length
\* of the cycle; the safety bound never drops a walk that would close.
C25_SimpleCycleEmittedWhateverLength ==
    pc = "polys" /\ gi > 0 /\ RingByIndex(edge_count) => PolysOf(gi) # {}

-----------------------------------------------------------------------------
(* The flood fill with its traversal order left open. *)

\* The code seeds a group with the lowest unused triangle (line 134), pops the
\* newest entry of the queue (line 142) and visits the neighbours edge by edge
\* in the order of the index (lines 144-148).  Here each of the three is a
\* free choice: any unused triangle is a seed, the queue is popped at either
\* end, the neighbours are visited in any order.  The code's order is one of
\* the choices.

\* The rearrangements of a tuple.
Rearrangements(s) ==
    {[k \in 1..Len(s) |-> s[p[k]]] : p \in Permutations(1..Len(s))}

AnyOrderInputs ==
    {Rectangle, Annulus, FigureEight, Fan, Roof, AtTolerance, SplitRectangle,
     Collapsed, PinchedAndApart, Overlapped}

InitAnyOrder ==
    /\ \E m \in AnyOrderInputs :
         /\ vertices = m.v
         /\ triangles = m.t
         /\ normal_tolerance = m.tol
    /\ pc = "index"
    /\ MergeIdle
    /\ ExportIdle
    /\ removed = 0
    /\ unit_exp = 0
    /\ grid_size = 1
    /\ min_faces = 0
    /\ stages = <<>>
    /\ loaded = vertices

\* Lines 134-139 with any unused triangle as the seed of the next group.
SeedAny ==
    /\ pc = "flood"
    /\ \E s \in (0..(NumTris - 1)) \ used :
         /\ group' = <<s>>
         /\ queue' = <<s>>
         /\ used' = used \cup {s}
    /\ pc' = "fill"
    /\ UNCHANGED <<input, face_normals, edge_to_triangles, triangle_groups, i,
                   gi, edge_count, edges, loop, current, final_polys,
                   poly_group>>

\* Lines 141-155 with curr taken from either end of the queue and its
\* neighbours visited in any order.
PopAny ==
    /\ pc = "fill"
    /\ queue # <<>>
    /\ \E newest \in BOOLEAN :
         LET curr == IF newest THEN queue[Len(queue)] ELSE queue[1]
             rest == IF newest THEN Front(queue) ELSE Tail(queue)
         IN  \E nbrs \in Rearrangements(Neighbors(curr)) :
               LET st == VisitAll([used |-> used, queue |-> rest,
                                   group |-> group], curr, nbrs)
               IN  /\ used' = st.used
                   /\ queue' = st.queue
                   /\ group' = st.group
    /\ UNCHANGED <<input, pc, face_normals, edge_to_triangles, triangle_groups, i,
                   gi, edge_count, edges, loop, current, final_polys, poly_group>>

\* Lines 159-163: every triangle is in a group.
EndAny ==
    /\ pc = "flood"
    /\ used = 0..(NumTris - 1)
    /\ final_polys' = <<>>
    /\ poly_group' = <<>>
    /\ gi' = 0
    /\ pc' = "polys"
    /\ UNCHANGED <<input, face_normals, edge_to_triangles, used, triangle_groups,
                   i, group, queue, edge_count, edges, loop, current>>

NextAnyOrder ==
    \/ IndexTriangles
    \/ SeedAny
    \/ PopAny
    \/ GroupDone
    \/ EndAny

SpecAnyOrder == InitAnyOrder /\ [][NextAnyOrder]_vars

\* The regions as sets of triangle indices.
RegionSets == {Range(triangle_groups[n]) : n \in 1..Len(triangle_groups)}

\* The classes of the triangles under "linked by a chain of edge-sharing
\* triangles that pass the test of line 152 pairwise": they are fixed by the
\* adjacency and the normals alone.
Components == {Chained({a}) : a \in 0..(NumTris - 1)}

\* C26: the partition into regions does not depend on the traversal order:
\* whichever triangle seeds a group, whichever end of the queue is popped and
\* in whichever order the neighbours are visited, the finished flood fill
\* yields the same set of regions, as sets of triangle indices.
C26_RegionsWhateverOrder ==
    pc = "polys" => RegionSets = Components

\* A finished flood fill that did not go the code's way: a region of three or
\* more triangles that was not seeded with its lowest triangle.
C26_Witness ==
    /\ pc = "polys"
    /\ \E n \in 1..Len(triangle_groups) :
          /\ Len(triangle_groups[n]) >= 3
          /\ \E a \in Range(triangle_groups[n]) : a < triangle_groups[n][1]

-----------------------------------------------------------------------------
(* The order of the triangles. *)

\* Every triple of ts rotated by r places.
Rotated(ts, r) == Rearranged(ts, r, 0)

\* C27 as stated: the set of edges left in edge_count for a region is the
\* same for every order in which the region's triangles, and the three edges
\* of each, are entered, also when three or more triangles use an edge.
C27_SurvivorsWhateverOrder ==
    Extracted =>
        \A ts \in Rearrangements(TriplesOf(group)) :
            \A r \in 0..2 :
                Range(SurvivingEdges(Rotated(ts, r), Len(ts)))
                    = Range(edge_count)

\* merge_coplanar_triangles as a function of the triangle list ts (over the
\* vertex array and the tolerance of the state), to compare its results for
\* different orders of the same triangles.

\* edge_to_triangles[key] for the list ts: the indices of the triangles with
\* the key, in the order of lines 120-129 (by triangle, then by edge).
UsersOfKey(ts, key) ==
    LET slots == [p \in 1..(3 * Len(ts)) |-> <<(p - 1) \div 3, (p - 1) % 3>>]
        hits == SelectSeq(slots, LAMBDA e : TriKey(ts[e[1] + 1], e[2]) = key)
    IN  [q \in 1..Len(hits) |-> hits[q][1]]

\* The neighbours looked at for curr (lines 144-148).
NeighborsIn(ts, curr) ==
    UsersOfKey(ts, TriKey(ts[curr + 1], 0))
        \o UsersOfKey(ts, TriKey(ts[curr + 1], 1))
        \o UsersOfKey(ts, TriKey(ts[curr + 1], 2))

\* Lines 149-155 for one neighbour.
VisitIn(ts, st, curr, nbr) ==
    IF nbr \in st.used THEN st
    ELSE IF Coplanar(NormalOf(ts[curr + 1]), NormalOf(ts[nbr + 1]),
                     normal_tolerance)
         THEN [used |-> st.used \cup {nbr},
               queue |-> Append(st.queue, nbr),
               group |-> Append(st.group, nbr)]
         ELSE st

RECURSIVE VisitAllIn(_, _, _, _)
VisitAllIn(ts, st, curr, nbrs) ==
    IF nbrs = <<>> THEN st
    ELSE VisitAllIn(ts, VisitIn(ts, st, curr, Head(nbrs)), curr, Tail(nbrs))

\* Lines 141-155: the while loop, from the state st = [used, queue, group].
RECURSIVE FillIn(_, _)
FillIn(ts, st) ==
    IF st.queue = <<>> THEN st
    ELSE LET curr == st.queue[Len(st.queue)]
         IN  FillIn(ts, VisitAllIn(ts, [used |-> st.used,
                                        queue |-> Front(st.queue),
                                        group |-> st.group],
                                   curr, NeighborsIn(ts, curr)))

\* Lines 134-157: the groups found from triangle n on, after the groups gs.
RECURSIVE GroupsFrom(_, _, _, _)
GroupsFrom(ts, n, usd, gs) ==
    IF n = Len(ts) THEN gs
    ELSE IF n \in usd THEN GroupsFrom(ts, n + 1, usd, gs)
    ELSE LET st == FillIn(ts, [used |-> usd \cup {n}, queue |-> <<n>>,
                               group |-> <<n>>])
         IN  GroupsFrom(ts, n + 1, st.used, Append(gs, st.group))

\* Lines 163-203: the polygons of the groups gs[n], gs[n + 1], ...
RECURSIVE PolysFrom(_, _, _)
PolysFrom(ts, gs, n) ==
    IF n > Len(gs) THEN <<>>
    ELSE YieldOf([k \in 1..Len(gs[n]) |-> ts[gs[n][k] + 1]])
           \o PolysFrom(ts, gs, n + 1)

\* The polygons returned for the triangle list ts.
MergeOf(ts) == PolysFrom(ts, GroupsFrom(ts, 0, {}, <<>>), 1)

\* The list ts with its a-th and b-th triangle exchanged.
Exchanged(ts, a, b) ==
    [k \in 1..Len(ts) |-> IF k = a THEN ts[b] ELSE IF k = b THEN ts[a] ELSE ts[k]]

\* The polygons as a set, each one up to the rotation of its start vertex.
UpToRotation(polys) == {Rotations(polys[k]) : k \in 1..Len(polys)}

\* C28 as stated, for the exchange of two triangles of the list: the set of
\* polygons returned, each up to rotation, is the same for the list with any
\* two of its triangles exchanged.
C28_PolygonsWhateverListOrder ==
    pc = "done" =>
        \A a, b \in 1..NumTris :
            UpToRotation(MergeOf(Exchanged(triangles, a, b)))
                = UpToRotation(final_polys)

\* The function of the list agrees with the run: what the run returned is
\* what MergeOf gives for the list of the run.
MergeOfAgrees == pc = "done" => MergeOf(triangles) = final_polys

-----------------------------------------------------------------------------
(* Termination of merge_coplanar_triangles. *)

\* ExtractBoundary can be taken: the condition of ENABLED <<ExtractBoundary>>_vars.
ExtractBoundaryEnabled == pc = "polys" /\ gi < Len(triangle_groups)

\* The function is sequential code: as long as a step is left to take, the
\* next step is taken.  That is weak fairness of every step; for
\* ExtractBoundary it is written out with the condition under which the step
\* can be taken.
SpecFair ==
    /\ Init
    /\ [][Next]_vars
    /\ WF_vars(IndexTriangles)
    /\ WF_vars(FloodSeed)
    /\ WF_vars(FloodPop)
    /\ WF_vars(GroupDone)
    /\ WF_vars(FloodEnd)
    /\ ([]<>(~ExtractBoundaryEnabled) \/ []<><<ExtractBoundary>>_vars)
    /\ WF_vars(WalkStep)
    /\ WF_vars(EmitLoop)
    /\ WF_vars(Return)

\* C29: on every triangle list with valid indices, non-manifold and
\* inconsistently wound ones included, merge_coplanar_triangles returns.  A
\* triangle is put on the queue only while it is unused, and once; every
\* iteration of the loop walk either ends the walk or takes one entry out of
\* the successor map.
C29_Terminates ==
    /\ (~DanglingIndex) ~> (pc = "done")
    /\ [][\A t \in 0..(NumTris - 1) :
             Count(t, queue') > Count(t, queue) =>
                 t \notin used /\ Count(t, queue') = 1]_vars
    /\ [][pc = "walk" => pc' # "walk" \/ Len(edges') = Len(edges) - 1]_vars

\* A run that returned on a mesh with an edge used by three triangles and a
\* region that is not consistently wound, after walking a loop to its end.
C29_Witness ==
    /\ pc = "done"
    /\ NonManifold
    /\ \E n \in 1..Len(triangle_groups) : ~ConsistentlyWound(triangle_groups[n])
    /\ Len(final_polys) >= 1

-----------------------------------------------------------------------------
(* Emission of quantized coordinates. *)

\* The number is a multiple of the grid unit g * 10^-d (d its number of
\* decimals) and the precision is the one main computes for that grid unit at
\* line 242.
OnGrid(num, p, g) ==
    /\ num[1] % g = 0
    /\ p = PrecisionOf(g, num[2])

\* C30 as stated: for every grid unit g > 0 and the precision main computes
\* for it, format_number writes every integer multiple of g as a numeral that
\* denotes exactly that multiple.
C30_QuantizedWrittenExactly ==
    pc = "formatted" =>
        \A g \in 1..MaxNumber :
            OnGrid(number, precision, g) =>
                /\ text # <<>>
                /\ Numeral(text, precision)
                /\ Denoted(text, precision) * Pow10(number[2])
                     = number[1] * Pow10(precision)

====
